---- MODULE Spec2Model ----
(***************************************************************************)
(* Orchestration engine of the testnet automation front end: the wallet    *)
(* manager (generation in batches, encrypted persistence), the testnet     *)
(* executor (network x wallet x task walk with cooperative cancellation)   *)
(* and the cascade funding pipeline (forward and reverse).                 *)
(*                                                                         *)
(* JavaScript runs each callback to completion: a callback gives the       *)
(* thread back only at an await of a timer, a WebCrypto call or a          *)
(* simulated transaction.  The variable cpu names the async invocation     *)
(* that is running synchronous code ("none": the event loop is idle, every *)
(* invocation is suspended); event handlers and resumptions need           *)
(* cpu = "none".  The executor's loops are written statement by statement  *)
(* under that lock, so no step of another invocation falls between two     *)
(* statements that the code runs back to back.                             *)
(*                                                                         *)
(* Wallet objects are identified by their position in the array            *)
(* walletManager.wallets, which these operations only append to.  Secrets  *)
(* are random in the code; here the n-th wallet ever generated has the     *)
(* private key <<"pk", n>> and the mnemonic <<"mn", n>>.  A ciphertext is  *)
(* <<"enc">> \o plaintext (the random IV is left out).  Balances are in    *)
(* units of 10^-6 (the six decimals toFixed(6) keeps); amounts are in      *)
(* units of 10^-7, so that the rounding of toFixed(6) is computed.         *)
(***************************************************************************)
EXTENDS Integers, Sequences, FiniteSets, TLC

VARIABLES
  wallets,    \* walletManager.wallets: sequence of wallet records
  serial,     \* number of wallets generated so far (names the random secrets)
  db,         \* walletManager.db: "null" | "open"
  store,      \* the persisted 'wallets' object store: set of records, key index
  cpu,        \* the invocation running synchronous code, or "none"
  isRunning,  \* testnetExecutor.isRunning
  stats,      \* testnetExecutor.stats
  skipped,    \* history: units skipped as already completed since stats was reset
  epc,        \* executeAll invocations: where each is suspended / what it runs next
  eloc,       \* executeAll invocations: arguments and loop variables
  eres,       \* executeAll invocations: how the last call ended
  ehist,      \* executeAll invocations: history of the current / last call
  gpc,        \* generateWallets invocations: control point
  gloc,       \* generateWallets invocations: arguments and locals
  gres,       \* generateWallets invocations: how the last call ended
  cRunning,   \* cascadeFunding.isRunning
  cpc,        \* cascade invocations: control point
  cloc,       \* cascade invocations: arguments and locals
  cres,       \* cascade invocations: how the last call ended
  chist,      \* cascade invocations: history of the current / last call
  exported,   \* the document the last exportAllData() returned
  imported,   \* history: the last importData(d): d and the store it left
  pcall,      \* direct calls of saveWallets / loadWallets: control, outcome, history
  auto        \* history: the last App.startAutomation(): mode, list handed over

vars == <<wallets, serial, db, store, cpu, isRunning, stats, skipped,
          epc, eloc, eres, ehist, gpc, gloc, gres,
          cRunning, cpc, cloc, cres, chist, exported, imported, pcall, auto>>

wmVars == <<wallets, serial, db, store>>
exVars == <<isRunning, stats, skipped, epc, eloc, eres, ehist>>
genVars == <<gpc, gloc, gres>>
caVars == <<cRunning, cpc, cloc, cres, chist>>
bkVars == <<exported, imported, pcall, auto>>

----------------------------------------------------------------------------
(* Bounds of the model *)

\* most wallets the wallet set may hold
MaxWallets == 2

\* most wallets the wallet set may hold in the specification of the cascades
MaxCascadeWallets == 3

\* most cascades one invocation may start (the balances have no bound)
MaxCascadeRuns == 2

\* most wallets generated before the last generateWallets call starts, where
\* wallets are also deleted
MaxGenerated == 2

\* most direct calls of saveWallets and loadWallets (a load whose decrypt
\* fails followed by a save wraps the field in one more layer each time)
MaxCalls == 3

\* program constants
batchSize == 100
MaxCount == 20000
MinCount == 1

ExecThreads == {"e1", "e2"}
GenThreads == {"g1", "g2"}
CascThreads == {"c1", "c2"}
CallThreads == {"s1"}

Range(s) == {s[i] : i \in 1..Len(s)}

Min(a, b) == IF a < b THEN a ELSE b

Max(a, b) == IF a > b THEN a ELSE b

\* all orders of the positions 1..n: what shuffleArray can return
Perms(n) == {s \in [1..n -> 1..n] : \A i, j \in 1..n : i # j => s[i] # s[j]}

----------------------------------------------------------------------------
(* utils/crypto.js: encrypt, decrypt *)

NoData == <<>>

\* encrypt(data): falsy data is returned as is; a failure inside the try
\* block returns the plaintext
encrypt(data, ok) ==
  IF data = NoData THEN data
  ELSE IF ok THEN <<"enc">> \o data
  ELSE data

\* a faulty variant of decrypt: the stored value is returned in every case
decryptNothing(data, ok) == data

\* a faulty variant of decryptFailed: the field is lost
decryptFailedEmpty(data) == NoData

\* the catch branch of decrypt (lines 82-85): the stored value as it is
decryptFailed(data) == data

\* decrypt(encryptedData): falsy data is returned as is; a failure (ok =
\* FALSE, or a value that is no ciphertext) ends in the catch branch
decrypt(data, ok) ==
  IF data = NoData THEN data
  ELSE IF ok /\ Head(data) = "enc" THEN Tail(data)
  ELSE decryptFailed(data)

----------------------------------------------------------------------------
(* modules/walletManager.js *)

ChainTypes == {"evm", "solana"}

\* _generateEVMWallet / _generateSolanaWallet: the record of a new wallet
NewWallet(chainType, index, n) ==
  [index |-> index, chainType |-> chainType,
   privateKey |-> <<"pk", n>>, mnemonic |-> <<"mn", n>>,
   balance |-> 0, completed |-> <<>>]

\* _generateBatch(count, chainType, startIndex): records startIndex ..
\* startIndex + count - 1, the k-th with the secrets of wallet n0 + k
generateBatch(count, chainType, startIndex, n0) ==
  [k \in 1..count |-> NewWallet(chainType, startIndex + k - 1, n0 + k)]

\* getWalletByIndex(index): position of the first wallet with that index, 0
\* when there is none (Array.prototype.find)
getWalletByIndex(ws, index) ==
  IF \E k \in 1..Len(ws) : ws[k].index = index
  THEN CHOOSE k \in 1..Len(ws) :
         /\ ws[k].index = index
         /\ \A j \in 1..(k - 1) : ws[j].index # index
  ELSE 0

\* a faulty variant of includes: no name is found
includesNever(completed, name) == FALSE

\* wallet.completed.includes(testnetName)
includes(completed, name) == name \in Range(completed)

\* saveWallets, the record written for one wallet: the spread of the wallet
\* taken before the two encrypt awaits, with the two fields replaced
encryptedWallet(snap, okKey, okMnemonic) ==
  [snap EXCEPT !.privateKey = encrypt(snap.privateKey, okKey),
               !.mnemonic = encrypt(snap.mnemonic, okMnemonic)]

\* store.add(record): refused when the key (keyPath 'index') is taken
addRefused(st, rec) == \E r \in st : r.index = rec.index

\* The save in progress of an invocation: k is the position of the wallet
\* whose fields are being encrypted, snap its spread.
NoSave == [k |-> 0, snap |-> NoData]

\* saveWallets up to its first suspension: the store is cleared and the first
\* wallet is spread; with no wallet (or no db) it returns at once.
\* Gives <<store', save', outcome>>, outcome "enc" (suspended) or "done".
saveBegin(ws, dbh, st) ==
  IF dbh = "null" THEN <<st, NoSave, "done">>
  ELSE IF Len(ws) = 0 THEN <<{}, NoSave, "done">>
  ELSE <<{}, [k |-> 1, snap |-> ws[1]], "enc">>

\* saveWallets resumed after the encrypt awaits of wallet sv.k: the record is
\* added (addOk = FALSE: the store raises) and the loop goes on to the next
\* wallet of the live array.  Outcome "enc", "done" or "throw".
saveResume(ws, st, sv, okKey, okMnemonic, addOk) ==
  LET rec == encryptedWallet(sv.snap, okKey, okMnemonic) IN
  IF addRefused(st, rec) \/ ~addOk THEN <<st, NoSave, "throw">>
  ELSE IF sv.k + 1 <= Len(ws)
       THEN <<st \cup {rec}, [k |-> sv.k + 1, snap |-> ws[sv.k + 1]], "enc">>
       ELSE <<st \cup {rec}, NoSave, "done">>

\* store.getAll(): the records in key order
RECURSIVE getAll(_)
getAll(st) ==
  IF st = {} THEN <<>>
  ELSE LET r == CHOOSE x \in st : \A y \in st : x.index <= y.index
       IN <<r>> \o getAll(st \ {r})

\* the decrypt calls of a load of st: <<k, field>> for the k-th record
SecretFields == {"privateKey", "mnemonic"}
decryptCalls(st) == (1..Cardinality(st)) \X SecretFields

\* loadWallets (lines 200-210): every stored record, in key order, with the
\* two fields decrypted; failing: the decrypt calls that fail
loadWalletsWith(st, failing) ==
  LET all == getAll(st) IN
  [k \in 1..Len(all) |->
     [all[k] EXCEPT
        !.privateKey = decrypt(all[k].privateKey, <<k, "privateKey">> \notin failing),
        !.mnemonic = decrypt(all[k].mnemonic, <<k, "mnemonic">> \notin failing)]]

\* loadWallets with one outcome for every decrypt call
loadWallets(st, ok) ==
  loadWalletsWith(st, IF ok THEN {} ELSE decryptCalls(st))

\* What the environment may do to a save: the outcomes of an encrypt call and
\* of a store.add call (TRUE: it succeeds).
AllFaults == [enc |-> BOOLEAN, add |-> BOOLEAN]
NoFaults == [enc |-> {TRUE}, add |-> {TRUE}]
EncFaults == [enc |-> BOOLEAN, add |-> {TRUE}]
AddFaults == [enc |-> {TRUE}, add |-> BOOLEAN]

\* the locals of a generateWallets call, and its history: batches: the sizes
\* of the batches generated, in order; progress: the percentages given to
\* _updateProgress, in order; before: the wallet set when it was called
GenIdle ==
  [count |-> 0, chainType |-> "evm", i |-> 0, newWallets |-> <<>>,
   before |-> <<>>, sv |-> NoSave, batches |-> <<>>, progress |-> <<>>]

\* walletManager.init(): the database is opened and the wallets are loaded.
\* The application sets up its event listeners after it (App.init), so every
\* other operation of a specification is taken with the database open.
init ==
  /\ db = "null"
  /\ cpu = "none"
  /\ db' = "open"
  /\ wallets' = loadWallets(store, TRUE)
  /\ UNCHANGED <<serial, store, cpu>>
  /\ UNCHANGED <<exVars, genVars, caVars, bkVars>>

\* a faulty variant of countRejected: the lower limit is not checked
countRejectedAboveOnly(count) == count > MaxCount

\* the count check of generateWallets
countRejected(count) == count < MinCount \/ count > MaxCount

\* the index _generateBatch gives the first record of the batch that starts
\* at offset i of the call: the offset itself
startIndex(ws, i) == i

\* a faulty variant of moreBatches: the loop runs once too often when the
\* count is a multiple of the batch size
moreBatchesInclusive(i, count) == i <= count

\* the test of the loop over the batches (line 27)
moreBatches(i, count) == i < count

\* a faulty variant of progressAfter: the batch just generated is left out
progressAfterStart(i, batch, count) == (i * 200 + count) \div (2 * count)

\* Math.round(((i + batch) / count) * 100), the progress after a batch
progressAfter(i, batch, count) == ((i + batch) * 200 + count) \div (2 * count)

\* this.wallets after a batch was pushed into the local newWallets (line 30):
\* a variant in which the batch is pushed into this.wallets at once, and
\* the code, in which this.wallets is not touched before line 40
walletsAfterBatchPushed(ws, batchWallets) == ws \o batchWallets
walletsAfterBatch(ws, batchWallets) == ws

\* generateWallets after its loop (lines 40-41), with the locals L: the new
\* records are pushed and saveWallets starts
generateFinish(g, L) ==
  LET ws == wallets \o L.newWallets
      b == saveBegin(ws, db, store)
  IN
  /\ wallets' = ws
  /\ store' = b[1]
  /\ gloc' = [gloc EXCEPT ![g] = [L EXCEPT !.sv = b[2]]]
  /\ gpc' = [gpc EXCEPT ![g] = IF b[3] = "enc" THEN "enc" ELSE "idle"]
  /\ gres' = [gres EXCEPT ![g] = IF b[3] = "enc" THEN "none" ELSE "ok"]

\* generateWallets(count, chainType) up to its first suspension: the count
\* check, the first batch, the progress update, then the await of _delay(10).
\* counts, chains: the inputs tried; cap: most wallets the set may reach.
generateWallets(g, counts, chains, cap) ==
  /\ db = "open"
  /\ cpu = "none"
  /\ gpc[g] = "idle"
  /\ \E count \in counts, chainType \in chains :
       LET batch == Min(batchSize, count)
           loc0 == [GenIdle EXCEPT !.count = count, !.chainType = chainType,
                                   !.before = wallets]
       IN
       IF countRejected(count) \/ (count > 0 /\ chainType \notin ChainTypes)
       THEN /\ gres' = [gres EXCEPT ![g] = "error"]
            /\ gloc' = [gloc EXCEPT ![g] = loc0]
            /\ UNCHANGED <<gpc, serial, wallets, store>>
       ELSE IF ~moreBatches(0, count)
       THEN /\ generateFinish(g, loc0)
            /\ UNCHANGED serial
       ELSE /\ Len(wallets) + count <= cap
            /\ gloc' = [gloc EXCEPT ![g] =
                 [loc0 EXCEPT
                    !.newWallets =
                      generateBatch(batch, chainType, startIndex(wallets, 0), serial),
                    !.batches = <<batch>>,
                    !.progress = <<progressAfter(0, batch, count)>>]]
            /\ serial' = serial + batch
            /\ gpc' = [gpc EXCEPT ![g] = "delay"]
            /\ gres' = [gres EXCEPT ![g] = "none"]
            /\ wallets' = walletsAfterBatch(wallets,
                 generateBatch(batch, chainType, startIndex(wallets, 0), serial))
            /\ UNCHANGED store
  /\ UNCHANGED <<db, cpu>>
  /\ UNCHANGED <<exVars, caVars>>

\* generateWallets resumed after _delay(10): the next batch, or after the
\* last one the push of the new records and the start of saveWallets
generateResume(g) ==
  /\ cpu = "none"
  /\ gpc[g] = "delay"
  /\ LET L == gloc[g]
         i2 == L.i + batchSize
     IN
     IF moreBatches(i2, L.count)
     THEN LET batch == Min(batchSize, L.count - i2) IN
          /\ gloc' = [gloc EXCEPT ![g] =
               [L EXCEPT !.i = i2,
                         !.newWallets = @ \o
                           generateBatch(batch, L.chainType,
                                         startIndex(wallets, i2), serial),
                         !.batches = Append(@, batch),
                         !.progress = Append(@, progressAfter(i2, batch, L.count))]]
          /\ serial' = serial + batch
          /\ wallets' = walletsAfterBatch(wallets,
               generateBatch(batch, L.chainType, startIndex(wallets, i2), serial))
          /\ UNCHANGED <<store, gpc, gres>>
     ELSE /\ generateFinish(g, [L EXCEPT !.i = i2])
          /\ UNCHANGED serial
  /\ UNCHANGED <<db, cpu>>
  /\ UNCHANGED <<exVars, caVars>>

\* generateWallets inside its final saveWallets, resumed after the encrypt
\* awaits of one wallet; a raise of the store ends the call with the error
generateSave(g, F) ==
  /\ cpu = "none"
  /\ gpc[g] = "enc"
  /\ \E okKey \in F.enc, okMnemonic \in F.enc, addOk \in F.add :
       LET r == saveResume(wallets, store, gloc[g].sv, okKey, okMnemonic, addOk) IN
       /\ store' = r[1]
       /\ gloc' = [gloc EXCEPT ![g].sv = r[2]]
       /\ gpc' = [gpc EXCEPT ![g] = IF r[3] = "enc" THEN "enc" ELSE "idle"]
       /\ gres' = [gres EXCEPT ![g] =
            CASE r[3] = "enc" -> "none"
              [] r[3] = "done" -> "ok"
              [] OTHER -> "error"]
  /\ UNCHANGED <<wallets, serial, db, cpu>>
  /\ UNCHANGED <<exVars, caVars>>

\* deleteAllWallets(), confirmed by the user: the wallet set becomes a new
\* empty array and saveWallets clears the store
deleteAllWallets ==
  /\ db = "open"
  /\ cpu = "none"
  /\ wallets' = <<>>
  /\ store' = saveBegin(wallets', db, store)[1]
  /\ UNCHANGED <<serial, db, cpu>>
  /\ UNCHANGED <<exVars, genVars, caVars, bkVars>>

\* A direct call of saveWallets() or loadWallets() on the exported wallet
\* manager.  op: the operation called last; handle: this.db when it was
\* called; res: how it ended; saved, savedStore, savedWith: the wallet set
\* and the store when the last save returned, and this.db in that call;
\* loadedFrom, failing: the store the last load read and the decrypt calls
\* that failed in it; calls: the calls made.
CallIdle ==
  [pc |-> "idle", op |-> "none", handle |-> "null", res |-> "none", calls |-> 0,
   sv |-> NoSave, hasSaved |-> FALSE, saved |-> <<>>, savedStore |-> {},
   savedWith |-> "null",
   loadedFrom |-> {}, failing |-> {}]

\* saveWallets() returned: what it leaves in the history
saveReturned(C, ws, st) ==
  [C EXCEPT !.pc = "idle", !.res = "ok", !.sv = NoSave,
            !.hasSaved = TRUE, !.saved = ws, !.savedStore = st,
            !.savedWith = C.handle]

\* saveWallets() up to its first suspension (lines 174-186)
saveWalletsCall(s) ==
  /\ cpu = "none"
  /\ pcall[s].pc = "idle"
  /\ pcall[s].calls < MaxCalls
  /\ LET b == saveBegin(wallets, db, store)
         C == [pcall[s] EXCEPT !.op = "save", !.handle = db, !.calls = @ + 1]
     IN
     /\ store' = b[1]
     /\ pcall' = [pcall EXCEPT ![s] =
          IF b[3] = "enc"
          THEN [C EXCEPT !.pc = "enc", !.res = "none", !.sv = b[2]]
          ELSE saveReturned(C, wallets, store')]
  /\ UNCHANGED <<wallets, serial, db, cpu, exported, imported, auto>>
  /\ UNCHANGED <<exVars, genVars, caVars>>

\* saveWallets() resumed after the encrypt awaits of one wallet (lines
\* 186-192); a raise of the store ends the call with the error
saveWalletsStep(s, F) ==
  /\ cpu = "none"
  /\ pcall[s].pc = "enc"
  /\ \E okKey \in F.enc, okMnemonic \in F.enc, addOk \in F.add :
       LET r == saveResume(wallets, store, pcall[s].sv, okKey, okMnemonic, addOk) IN
       /\ store' = r[1]
       /\ pcall' = [pcall EXCEPT ![s] =
            CASE r[3] = "enc" -> [@ EXCEPT !.sv = r[2]]
              [] r[3] = "done" -> saveReturned(@, wallets, store')
              [] OTHER -> [@ EXCEPT !.pc = "idle", !.res = "error", !.sv = NoSave]]
  /\ UNCHANGED <<wallets, serial, db, cpu, exported, imported, auto>>
  /\ UNCHANGED <<exVars, genVars, caVars>>

\* loadWallets() (lines 195-211), its decrypt awaits taken with no other
\* callback between them; failings: the sets of failing decrypt calls tried
loadWalletsCall(s, failings) ==
  /\ cpu = "none"
  /\ pcall[s].pc = "idle"
  /\ pcall[s].calls < MaxCalls
  /\ LET C == [pcall[s] EXCEPT !.op = "load", !.handle = db, !.res = "ok",
                               !.calls = @ + 1]
     IN
     IF db = "null"
     THEN /\ pcall' = [pcall EXCEPT ![s] = C]
          /\ UNCHANGED wallets
     ELSE \E failing \in failings :
            /\ failing \subseteq decryptCalls(store)
            /\ wallets' = loadWalletsWith(store, failing)
            /\ pcall' = [pcall EXCEPT ![s] =
                 [C EXCEPT !.loadedFrom = store, !.failing = failing]]
  /\ UNCHANGED <<serial, db, store, cpu, exported, imported, auto>>
  /\ UNCHANGED <<exVars, genVars, caVars>>

----------------------------------------------------------------------------
(* modules/testnetExecutor.js (class TestnetExecutor) *)

\* the task kinds executeTask has a case for
KnownTasks == {"faucet", "swap", "bridge", "nft_mint", "stake", "custom"}

\* the network list the application holds
Testnets ==
  << [name |-> "A", tasks |-> <<"faucet", "swap">>],
     [name |-> "B", tasks |-> <<"custom">>] >>

\* a network the task parser has built from a text that names a vote and a
\* liquidity pool: the kinds are the keys of taskPatterns that match
ParsedTestnet == [name |-> "V", tasks |-> <<"vote", "provide_liquidity">>]

\* config: randomizeOrder, and the two delays in seconds (0: no pause)
Configs ==
  { [randomizeOrder |-> FALSE, walletDelay |-> 0, testnetDelay |-> 0],
    [randomizeOrder |-> TRUE, walletDelay |-> 1, testnetDelay |-> 1] }

PlainConfig == [randomizeOrder |-> FALSE, walletDelay |-> 0, testnetDelay |-> 0]
PausingConfig == [randomizeOrder |-> FALSE, walletDelay |-> 1, testnetDelay |-> 1]

Stats0 == [totalTasks |-> 0, completed |-> 0, successful |-> 0, failed |-> 0]

ExecIdle ==
  [tn |-> <<>>, cfg |-> PlainConfig, ti |-> 0, ow |-> <<>>, wi |-> 0, ki |-> 0,
   sv |-> NoSave]

\* history of one call: stopSeen: stop() was called during it and no
\* executeAll was accepted since; fresh: it was accepted with no other call
\* active and every wallet listing every network of its list; nw: the size of
\* the wallet set then; again: the call before it ended "completed" over a
\* wallet set of the same size; okUnit: <<position, network>> of the unit that last
\* ended in the success branch; stopCalled: stop() was called during it;
\* emptyInput: it was accepted with no wallet or no network; traversed: its
\* loop over the networks reached the end of the list; units: the units
\* <<network, position>> whose tasks were started; tasks: the tasks
\* <<network, position, number>> invoked; repeated: a unit was started or a
\* task invoked that had been before; raised: the task that ended last
\* raised; failedUnits: the units that ended in the catch branch
Hist0 ==
  [stopSeen |-> FALSE, fresh |-> FALSE, again |-> FALSE, nw |-> 0, okUnit |-> <<>>,
   stopCalled |-> FALSE, emptyInput |-> FALSE, traversed |-> FALSE,
   units |-> {}, tasks |-> {}, repeated |-> FALSE, raised |-> FALSE,
   failedUnits |-> {}]

\* shuffleArray(list) when randomizeOrder is set, the list itself otherwise:
\* the orders the traversal may take, as sequences of positions
orders(randomize, n) ==
  IF randomize THEN Perms(n) ELSE {[k \in 1..n |-> k]}

Active(p) == epc[p] # "idle"

AllDone(ws, tn) ==
  \A k \in 1..Len(ws), j \in 1..Len(tn) : includes(ws[k].completed, tn[j].name)

\* a faulty variant of taskCheck: the poll before each task is missing
taskCheckMissing == TRUE

\* the three polls of the cancellation flag (lines 166, 199, 235)
networkCheck == isRunning
walletCheck == isRunning
taskCheck == isRunning

\* a faulty variant of statsFailure: the catch branch forgets failed++
statsFailureUncounted(s) == [s EXCEPT !.completed = @ + 1]

\* a faulty variant of statsSkip: the skipped unit counts as a success
statsSkipCountsSuccess(s) == [s EXCEPT !.successful = @ + 1, !.completed = @ + 1]

\* the counters after a unit that ended in the try branch / the catch branch /
\* was skipped as already completed
statsSuccess(s) == [s EXCEPT !.successful = @ + 1, !.completed = @ + 1]
statsFailure(s) == [s EXCEPT !.failed = @ + 1, !.completed = @ + 1]
statsSkip(s) == [s EXCEPT !.completed = @ + 1]

\* a faulty variant of inputsEmpty: the two checks are missing
inputsEmptyUnchecked(ws, testnets) == FALSE

\* the two checks of the inputs (lines 150-156)
inputsEmpty(ws, testnets) == Len(ws) = 0 \/ Len(testnets) = 0

\* a faulty variant of finallyIsRunning: the finally block is missing
finallyMissing == isRunning

\* the value the finally block gives the flag (line 190)
finallyIsRunning == FALSE

\* executeAll(testnets, config) up to the first network of the loop
executeAll(p, inputs, configs) ==
  /\ db = "open"
  /\ cpu = "none"
  /\ epc[p] = "idle"
  /\ \E testnets \in inputs, config \in configs :
       IF isRunning
       THEN /\ eres' = [eres EXCEPT ![p] = "rejected"]
            /\ UNCHANGED <<isRunning, stats, skipped, epc, eloc, ehist, cpu>>
       ELSE IF inputsEmpty(wallets, testnets)
       THEN /\ isRunning' = finallyIsRunning
            /\ stats' = Stats0
            /\ skipped' = 0
            /\ eres' = [eres EXCEPT ![p] = "error"]
            /\ ehist' = [q \in ExecThreads |->
                 IF q = p THEN [Hist0 EXCEPT !.emptyInput = TRUE]
                 ELSE [ehist[q] EXCEPT !.stopSeen = FALSE]]
            /\ UNCHANGED <<epc, eloc, cpu>>
       ELSE \E ord \in orders(config.randomizeOrder, Len(testnets)) :
            LET orderedTestnets == [k \in 1..Len(testnets) |-> testnets[ord[k]]] IN
            /\ isRunning' = TRUE
            /\ stats' = [Stats0 EXCEPT
                 !.totalTasks = Len(orderedTestnets) * Len(wallets)]
            /\ skipped' = 0
            /\ eloc' = [eloc EXCEPT ![p] =
                 [ExecIdle EXCEPT !.tn = orderedTestnets, !.cfg = config, !.ti = 1]]
            /\ epc' = [epc EXCEPT ![p] = "netLoop"]
            /\ eres' = [eres EXCEPT ![p] = "none"]
            /\ ehist' = [q \in ExecThreads |->
                 IF q = p
                 THEN [Hist0 EXCEPT
                         !.fresh = /\ AllDone(wallets, testnets)
                                   /\ \A r \in ExecThreads : ~Active(r),
                         !.again = /\ eres[p] = "completed"
                                   /\ ehist[p].nw = Len(wallets),
                         !.nw = Len(wallets),
                         !.emptyInput = Len(wallets) = 0 \/ Len(testnets) = 0]
                 ELSE [ehist[q] EXCEPT !.stopSeen = FALSE]]
            /\ cpu' = p
  /\ UNCHANGED <<wmVars, genVars, caVars>>

\* executeAll, the head of the loop over the networks (lines 165-166) and,
\* when the loop ends, the report and the finally block (lines 178-191)
netLoop(p) ==
  /\ cpu = p
  /\ epc[p] = "netLoop"
  /\ LET L == eloc[p] IN
     IF L.ti > Len(L.tn) \/ ~networkCheck
     THEN /\ eres' = [eres EXCEPT ![p] =
               IF isRunning THEN "completed" ELSE "stopped"]
          /\ isRunning' = finallyIsRunning
          /\ epc' = [epc EXCEPT ![p] = "idle"]
          /\ eloc' = [eloc EXCEPT ![p] = ExecIdle]
          /\ ehist' = [ehist EXCEPT ![p].traversed = L.ti > Len(L.tn)]
          /\ cpu' = "none"
     ELSE /\ \E ow \in orders(L.cfg.randomizeOrder,
                              IF L.cfg.randomizeOrder THEN Len(wallets) ELSE 0) :
               eloc' = [eloc EXCEPT ![p] = [L EXCEPT !.ow = ow, !.wi = 1]]
          /\ epc' = [epc EXCEPT ![p] = "walletLoop"]
          /\ UNCHANGED <<eres, isRunning, ehist, cpu>>
  /\ UNCHANGED <<stats, skipped>>
  /\ UNCHANGED <<wmVars, genVars, caVars>>

\* a faulty variant of alreadyCompleted: the skip test is missing
alreadyCompletedNever(wallet, name) == FALSE

\* the skip test of executeTestnet (line 202)
alreadyCompleted(wallet, name) == includes(wallet.completed, name)

\* the wallets executeTestnet iterates: the live array, or the shuffled copy
numWallets(L) == IF L.cfg.randomizeOrder THEN Len(L.ow) ELSE Len(wallets)
walletAt(L) == IF L.cfg.randomizeOrder THEN L.ow[L.wi] ELSE L.wi

\* the unit the invocation is at: <<network name, wallet position>>
unitOf(L) == <<L.tn[L.ti].name, walletAt(L)>>

\* executeTestnet, the head of the loop over the wallets (lines 198-205)
walletLoop(p) ==
  /\ cpu = p
  /\ epc[p] = "walletLoop"
  /\ LET L == eloc[p] IN
     IF L.wi > numWallets(L) \/ ~walletCheck
     THEN /\ epc' = [epc EXCEPT ![p] = "afterTestnet"]
          /\ eloc' = [eloc EXCEPT ![p] = [L EXCEPT !.ow = <<>>, !.wi = 0]]
          /\ UNCHANGED <<stats, skipped, ehist>>
     ELSE IF alreadyCompleted(wallets[walletAt(L)], L.tn[L.ti].name)
     THEN /\ stats' = statsSkip(stats)
          /\ skipped' = skipped + 1
          /\ eloc' = [eloc EXCEPT ![p] = [L EXCEPT !.wi = @ + 1]]
          /\ UNCHANGED <<epc, ehist>>
     ELSE /\ epc' = [epc EXCEPT ![p] = "taskLoop"]
          /\ eloc' = [eloc EXCEPT ![p] = [L EXCEPT !.ki = 1]]
          /\ ehist' = [ehist EXCEPT
               ![p].units = @ \cup {unitOf(L)},
               ![p].repeated = @ \/ unitOf(L) \in ehist[p].units]
          /\ UNCHANGED <<stats, skipped>>
  /\ UNCHANGED <<isRunning, eres, cpu>>
  /\ UNCHANGED <<wmVars, genVars, caVars>>

\* executeWalletTasks, the head of the loop over the tasks (lines 234-237):
\* a known kind starts its simulated transaction, an unknown kind is only
\* logged and the pause between tasks follows
taskLoop(p) ==
  /\ cpu = p
  /\ epc[p] = "taskLoop"
  /\ LET L == eloc[p]
         tasks == L.tn[L.ti].tasks
     IN
     IF L.ki > Len(tasks) \/ ~taskCheck
     THEN /\ epc' = [epc EXCEPT ![p] = "mark"]
          /\ UNCHANGED <<ehist, cpu>>
     ELSE /\ epc' = [epc EXCEPT ![p] =
               IF tasks[L.ki] \in KnownTasks THEN "tx" ELSE "taskPause"]
          /\ ehist' = [ehist EXCEPT
               ![p].tasks = @ \cup {unitOf(L) \o <<L.ki>>},
               ![p].repeated = @ \/ (unitOf(L) \o <<L.ki>>) \in ehist[p].tasks]
          /\ cpu' = "none"
  /\ UNCHANGED <<isRunning, stats, skipped, eloc, eres>>
  /\ UNCHANGED <<wmVars, genVars, caVars>>

\* a faulty variant of afterUnit: a unit that failed is attempted again
afterUnitRetry(ok) == IF ok THEN 1 ELSE 0

\* how far the loop over the wallets advances after a unit: to the next
\* wallet, whatever the outcome of the unit
afterUnit(ok) == 1

\* executeTestnet after the unit (lines 213-227): the counters, then the
\* pause between wallets when walletDelay is set and the run is not cancelled
unitFinish(p, L, ok) ==
  LET pause == L.cfg.walletDelay > 0 /\ isRunning IN
  /\ stats' = IF ok THEN statsSuccess(stats) ELSE statsFailure(stats)
  /\ epc' = [epc EXCEPT ![p] = IF pause THEN "walletPause" ELSE "walletLoop"]
  /\ cpu' = IF pause THEN "none" ELSE p
  /\ eloc' = [eloc EXCEPT ![p] =
       [L EXCEPT !.wi = IF pause THEN @ ELSE @ + afterUnit(ok),
                 !.ki = 0, !.sv = NoSave]]
  /\ ehist' = [ehist EXCEPT
       ![p].okUnit = IF ok THEN <<walletAt(L), L.tn[L.ti].name>> ELSE <<>>,
       ![p].raised = epc[p] = "tx",
       ![p].failedUnits = IF ok THEN @ ELSE @ \cup {unitOf(L)}]

\* a faulty variant of taskErrorCaughtBy: the loop over the tasks swallows
\* the error and goes on
taskErrorSwallowed == "executeWalletTasks"

\* where the error of a task is caught: executeWalletTasks and executeTask
\* have no handler, the try of executeTestnet has (lines 207-219)
taskErrorCaughtBy == "executeTestnet"

\* a simulated transaction ends: the task succeeds, and the pause between
\* tasks begins, or it raises, which ends the unit in the catch branch
taskDone(p) ==
  /\ cpu = "none"
  /\ epc[p] = "tx"
  /\ \E ok \in BOOLEAN :
       IF ok \/ taskErrorCaughtBy = "executeWalletTasks"
       THEN /\ epc' = [epc EXCEPT ![p] = "taskPause"]
            /\ ehist' = [ehist EXCEPT ![p].raised = ~ok]
            /\ UNCHANGED <<stats, eloc, cpu>>
       ELSE unitFinish(p, eloc[p], FALSE)
  /\ UNCHANGED <<isRunning, skipped, eres>>
  /\ UNCHANGED <<wmVars, genVars, caVars>>

\* the pause between tasks ends (line 240)
taskPauseDone(p) ==
  /\ cpu = "none"
  /\ epc[p] = "taskPause"
  /\ eloc' = [eloc EXCEPT ![p].ki = @ + 1]
  /\ epc' = [epc EXCEPT ![p] = "taskLoop"]
  /\ cpu' = p
  /\ UNCHANGED <<isRunning, stats, skipped, eres, ehist>>
  /\ UNCHANGED <<wmVars, genVars, caVars>>

\* a faulty variant of markTestnetCompleted: the balance is reset as well
markTestnetCompletedAndBalance(ws, walletIndex, testnetName) ==
  LET m == getWalletByIndex(ws, walletIndex) IN
  IF m # 0 /\ ~includes(ws[m].completed, testnetName)
  THEN [ws EXCEPT ![m].completed = Append(@, testnetName), ![m].balance = 0]
  ELSE ws

\* markTestnetCompleted(walletIndex, testnetName): the wallet is looked up by
\* its index; the name is pushed when it is not listed
markTestnetCompleted(ws, walletIndex, testnetName) ==
  LET m == getWalletByIndex(ws, walletIndex) IN
  IF m # 0 /\ ~includes(ws[m].completed, testnetName)
  THEN [ws EXCEPT ![m].completed = Append(@, testnetName)]
  ELSE ws

\* executeTestnet after the tasks of the unit (line 211): the completion is
\* recorded and, when the list changed, saveWallets starts
mark(p) ==
  /\ cpu = p
  /\ epc[p] = "mark"
  /\ LET L == eloc[p]
         name == L.tn[L.ti].name
         ws == markTestnetCompleted(wallets, wallets[walletAt(L)].index, name)
         b == saveBegin(ws, db, store)
     IN
     IF ws # wallets /\ b[3] = "enc"
     THEN /\ wallets' = ws
          /\ store' = b[1]
          /\ eloc' = [eloc EXCEPT ![p].sv = b[2]]
          /\ epc' = [epc EXCEPT ![p] = "enc"]
          /\ cpu' = "none"
          /\ UNCHANGED <<stats, ehist>>
     ELSE /\ wallets' = ws
          /\ store' = IF ws # wallets THEN b[1] ELSE store
          /\ unitFinish(p, L, TRUE)
  /\ UNCHANGED <<serial, db, isRunning, skipped, eres>>
  /\ UNCHANGED <<genVars, caVars>>

\* saveWallets, called by markTestnetCompleted, resumed after the encrypt
\* awaits of one wallet; a raise of the store ends the unit in the catch branch
saveStep(p, F) ==
  /\ cpu = "none"
  /\ epc[p] = "enc"
  /\ \E okKey \in F.enc, okMnemonic \in F.enc, addOk \in F.add :
       LET r == saveResume(wallets, store, eloc[p].sv, okKey, okMnemonic, addOk) IN
       /\ store' = r[1]
       /\ IF r[3] = "enc"
          THEN /\ eloc' = [eloc EXCEPT ![p].sv = r[2]]
               /\ UNCHANGED <<stats, epc, ehist, cpu>>
          ELSE unitFinish(p, eloc[p], r[3] = "done")
  /\ UNCHANGED <<wallets, serial, db, isRunning, skipped, eres>>
  /\ UNCHANGED <<genVars, caVars>>

\* the pause between wallets ends (line 226)
walletPauseDone(p) ==
  /\ cpu = "none"
  /\ epc[p] = "walletPause"
  /\ eloc' = [eloc EXCEPT ![p].wi = @ + 1]
  /\ epc' = [epc EXCEPT ![p] = "walletLoop"]
  /\ cpu' = p
  /\ UNCHANGED <<isRunning, stats, skipped, eres, ehist>>
  /\ UNCHANGED <<wmVars, genVars, caVars>>

\* executeAll after executeTestnet (lines 173-175): the pause between
\* networks when testnetDelay is set and the run is not cancelled
afterTestnet(p) ==
  /\ cpu = p
  /\ epc[p] = "afterTestnet"
  /\ LET L == eloc[p]
         pause == L.cfg.testnetDelay > 0 /\ isRunning
     IN
     IF pause
     THEN /\ epc' = [epc EXCEPT ![p] = "netPause"]
          /\ cpu' = "none"
          /\ UNCHANGED eloc
     ELSE /\ epc' = [epc EXCEPT ![p] = "netLoop"]
          /\ eloc' = [eloc EXCEPT ![p].ti = @ + 1]
          /\ UNCHANGED cpu
  /\ UNCHANGED <<isRunning, stats, skipped, eres, ehist>>
  /\ UNCHANGED <<wmVars, genVars, caVars>>

\* the pause between networks ends (line 174)
netPauseDone(p) ==
  /\ cpu = "none"
  /\ epc[p] = "netPause"
  /\ eloc' = [eloc EXCEPT ![p].ti = @ + 1]
  /\ epc' = [epc EXCEPT ![p] = "netLoop"]
  /\ cpu' = p
  /\ UNCHANGED <<isRunning, stats, skipped, eres, ehist>>
  /\ UNCHANGED <<wmVars, genVars, caVars>>

\* TestnetExecutor.stop()
stop ==
  /\ isRunning' = FALSE
  /\ ehist' = [q \in ExecThreads |->
       IF Active(q)
       THEN [ehist[q] EXCEPT !.stopSeen = TRUE, !.stopCalled = TRUE]
       ELSE ehist[q]]
  /\ UNCHANGED <<stats, skipped, epc, eloc, eres>>

\* CascadeFunding.stop()
cascadeStop ==
  /\ cRunning' = FALSE
  /\ chist' = [c \in DOMAIN chist |->
       IF cpc[c] # "idle" THEN [chist[c] EXCEPT !.stopSeen = TRUE] ELSE chist[c]]
  /\ UNCHANGED <<cpc, cloc, cres>>

\* App.stopAutomation(): both engines are told to stop
stopAutomation ==
  /\ db = "open"
  /\ cpu = "none"
  /\ stop
  /\ cascadeStop
  /\ UNCHANGED <<wmVars, cpu, genVars, bkVars>>

----------------------------------------------------------------------------
(* modules/cascadeFunding.js (class CascadeFunding) *)

\* gasBuffer = 0.001 and gasReserve = 0.001, in units of 10^-7
GasBuffer == 10000
GasReserve == 10000

\* x.toFixed(6) of a value in units of 10^-7: the nearest multiple of 10^-6,
\* the larger one of two equally near
toFixed6(x) == (x + 5) \div 10

\* parseFloat(balance) of a balance string, in units of 10^-7
parseBalance(b) == b * 10

CascIdle == [mode |-> "none", amount |-> 0, gasBuffer |-> 0, i |-> 0]

\* history of one cascade: the wallet positions (from 0) whose transfer was
\* attempted, in order; the position whose transfer failed last (-1: none);
\* the balances when the cascade started; whether stop() was called during
\* it; the number of cascades the invocation has started; the destination
\* address of a reverse cascade
CHist0 ==
  [mode |-> "none", attempts |-> <<>>, failedAt |-> -1, before |-> <<>>,
   stopSeen |-> FALSE, runs |-> 0, destination |-> ""]

balances(ws) == [k \in 1..Len(ws) |-> ws[k].balance]

CActive(c) == cpc[c] # "idle"

\* faulty variants of the two policies: each cascade with the other's
forwardAfterErrorContinues == "continue"
reverseAfterErrorAborts == "abort"

\* what a failed transfer does to the loop: the forward cascade rethrows
\* (lines 49-52), the reverse cascade logs and goes on (lines 104-107)
forwardAfterError == "abort"
reverseAfterError == "continue"

\* simulateFunding, the balance update (lines 130-132); i from 0
simulateFunding(ws, i, amount, gasBuffer) ==
  LET amountToSend == amount - gasBuffer IN
  [ws EXCEPT
     ![i + 1].balance = toFixed6(parseBalance(@) - amount),
     ![i + 2].balance = toFixed6(parseBalance(@) + amountToSend)]

\* simulateReverseFunding (lines 152-160): what is above the reserve
reverseAmount(ws, i) == Max(0, parseBalance(ws[i + 1].balance) - GasReserve)

\* a faulty variant of insufficientBalance: nothing to send is no error
insufficientBalanceNever(amountToSend) == FALSE

\* the test of line 156
insufficientBalance(amountToSend) == amountToSend <= 0

\* a faulty variant of simulateReverseFunding: what is sent is credited to
\* the wallet before
simulateReverseFundingCredits(ws, i) ==
  [k \in 1..Len(ws) |->
     IF k = i + 1 THEN [ws[k] EXCEPT !.balance = toFixed6(GasReserve)]
     ELSE IF k = i THEN [ws[k] EXCEPT !.balance =
                           toFixed6(parseBalance(@) + reverseAmount(ws, i))]
     ELSE ws[k]]

\* simulateReverseFunding, the balance update (line 160); i from 0
simulateReverseFunding(ws, i) ==
  [ws EXCEPT ![i + 1].balance = toFixed6(GasReserve)]

\* the end of a cascade: the finally block
cascadeEnd(c, outcome) ==
  /\ cRunning' = FALSE
  /\ cpc' = [cpc EXCEPT ![c] = "idle"]
  /\ cloc' = [cloc EXCEPT ![c] = CascIdle]
  /\ cres' = [cres EXCEPT ![c] = outcome]

\* a faulty variant of cascadeCheck: the flag is not looked at
cascadeCheckMissing == TRUE

\* the test of the flag at the head of each iteration (lines 33 and 88)
cascadeCheck == cRunning

\* the loop goes on to the next position: its test (bound and cancellation
\* flag), then the next transfer or the end of the cascade; h is the history
\* of the cascade so far
cascadeNext(c, L, h) ==
  LET i2 == IF L.mode = "forward" THEN L.i + 1 ELSE L.i - 1
      more == IF L.mode = "forward" THEN i2 < Len(wallets) - 1 ELSE i2 >= 0
  IN
  IF more /\ cascadeCheck
  THEN /\ cloc' = [cloc EXCEPT ![c] = [L EXCEPT !.i = i2]]
       /\ cpc' = [cpc EXCEPT ![c] = IF L.mode = "forward" THEN "ftx" ELSE "rtx"]
       /\ chist' = [chist EXCEPT ![c] = [h EXCEPT !.attempts = Append(@, i2)]]
       /\ UNCHANGED <<cRunning, cres>>
  ELSE /\ cascadeEnd(c, "completed")
       /\ chist' = [chist EXCEPT ![c] = h]

\* a transfer failed: the cascade is abandoned or goes on, by its policy
cascadeError(c, L, policy) ==
  LET h == [chist[c] EXCEPT !.failedAt = L.i] IN
  IF policy = "abort"
  THEN /\ cascadeEnd(c, "failed")
       /\ chist' = [chist EXCEPT ![c] = h]
  ELSE cascadeNext(c, L, h)

\* a faulty variant of reverseRefused: the destination is not looked at
reverseRefusedWalletsOnly(ws, destinationAddress) == Len(ws) < 1

\* the requirements of the two cascades (lines 18-21 and 72-80)
forwardRefused(ws) == Len(ws) < 2
reverseRefused(ws, destinationAddress) ==
  Len(ws) < 1 \/ destinationAddress = ""

\* fundForward(amount, gasBuffer) up to the first transfer
fundForward(c, amounts, maxRuns) ==
  /\ db = "open"
  /\ cpu = "none"
  /\ cpc[c] = "idle"
  /\ chist[c].runs < maxRuns
  /\ \E amount \in amounts :
       IF cRunning
       THEN /\ cres' = [cres EXCEPT ![c] = "rejected"]
            /\ UNCHANGED <<cRunning, cpc, cloc, chist>>
       ELSE IF forwardRefused(wallets)
       THEN /\ cres' = [cres EXCEPT ![c] = "refused"]
            /\ UNCHANGED <<cRunning, cpc, cloc, chist>>
       ELSE /\ cRunning' = TRUE
            /\ cloc' = [cloc EXCEPT ![c] =
                 [mode |-> "forward", amount |-> amount,
                  gasBuffer |-> GasBuffer, i |-> 0]]
            /\ cpc' = [cpc EXCEPT ![c] = "ftx"]
            /\ cres' = [cres EXCEPT ![c] = "none"]
            /\ chist' = [chist EXCEPT ![c] =
                 [CHist0 EXCEPT !.mode = "forward", !.attempts = <<0>>,
                                !.before = balances(wallets),
                                !.runs = chist[c].runs + 1]]
  /\ UNCHANGED <<wmVars, cpu, exVars, genVars>>

\* the transfer of a forward link ends: it fails, or the two balances are
\* updated and the pause between transfers begins
forwardTx(c) ==
  /\ cpu = "none"
  /\ cpc[c] = "ftx"
  /\ LET L == cloc[c] IN
     \E ok \in BOOLEAN :
       IF ok
       THEN /\ wallets' = simulateFunding(wallets, L.i, L.amount, L.gasBuffer)
            /\ cpc' = [cpc EXCEPT ![c] = "pause"]
            /\ UNCHANGED <<cRunning, cloc, cres, chist>>
       ELSE /\ cascadeError(c, L, forwardAfterError)
            /\ UNCHANGED wallets
  /\ UNCHANGED <<serial, db, store, cpu, exVars, genVars>>

\* fundReverse(destinationAddress) up to the first transfer
fundReverse(c, destinations, maxRuns) ==
  /\ db = "open"
  /\ cpu = "none"
  /\ cpc[c] = "idle"
  /\ chist[c].runs < maxRuns
  /\ \E destinationAddress \in destinations :
       IF cRunning
       THEN /\ cres' = [cres EXCEPT ![c] = "rejected"]
            /\ UNCHANGED <<cRunning, cpc, cloc, chist>>
       ELSE IF reverseRefused(wallets, destinationAddress)
       THEN /\ cres' = [cres EXCEPT ![c] = "refused"]
            /\ UNCHANGED <<cRunning, cpc, cloc, chist>>
       ELSE /\ cRunning' = TRUE
            /\ cloc' = [cloc EXCEPT ![c] =
                 [CascIdle EXCEPT !.mode = "reverse", !.i = Len(wallets) - 1]]
            /\ cpc' = [cpc EXCEPT ![c] = "rtx"]
            /\ cres' = [cres EXCEPT ![c] = "none"]
            /\ chist' = [chist EXCEPT ![c] =
                 [CHist0 EXCEPT !.mode = "reverse",
                                !.destination = destinationAddress,
                                !.attempts = <<Len(wallets) - 1>>,
                                !.before = balances(wallets),
                                !.runs = chist[c].runs + 1]]
  /\ UNCHANGED <<wmVars, cpu, exVars, genVars>>

\* the transfer of a reverse position ends: the simulated network fails, or
\* nothing is above the reserve, or the balance drops to the reserve and the
\* pause between transfers begins
reverseTx(c) ==
  /\ cpu = "none"
  /\ cpc[c] = "rtx"
  /\ LET L == cloc[c] IN
     \E ok \in BOOLEAN :
       IF ok /\ ~insufficientBalance(reverseAmount(wallets, L.i))
       THEN /\ wallets' = simulateReverseFunding(wallets, L.i)
            /\ cpc' = [cpc EXCEPT ![c] = "pause"]
            /\ UNCHANGED <<cRunning, cloc, cres, chist>>
       ELSE /\ cascadeError(c, L, reverseAfterError)
            /\ UNCHANGED wallets
  /\ UNCHANGED <<serial, db, store, cpu, exVars, genVars>>

\* the pause between two transfers ends (lines 45 and 100)
cascadePauseDone(c) ==
  /\ cpu = "none"
  /\ cpc[c] = "pause"
  /\ cascadeNext(c, cloc[c], chist[c])
  /\ UNCHANGED <<wmVars, cpu, exVars, genVars>>

----------------------------------------------------------------------------
(* utils/db.js: the bulk backup.  Of the five collections the 'wallets'     *)
(* collection is kept; the calls on a store give their result to the await. *)

NoExport == [made |-> FALSE, wallets |-> <<>>]
NoImport == [done |-> FALSE, d |-> <<>>, after |-> {}]

\* exportAllData(): data.wallets is store.getAll()
exportAllData ==
  /\ db = "open"
  /\ cpu = "none"
  /\ exported' = [made |-> TRUE, wallets |-> getAll(store)]
  /\ UNCHANGED <<wmVars, cpu, exVars, genVars, caVars, imported, pcall, auto>>

\* the loop of importData over the items of one collection (lines 154-156):
\* every item is added; gives the store after the loop
RECURSIVE addItems(_, _)
addItems(st, items) ==
  IF items = <<>> \/ addRefused(st, Head(items)) THEN st
  ELSE addItems(st \cup {Head(items)}, Tail(items))

\* importData(d), one collection (lines 145-160): a collection whose list is
\* missing or empty is left alone, any other is cleared and filled
importItems(st, items) ==
  IF Len(items) > 0 THEN addItems({}, items) ELSE st

\* importData(d) with d.data.wallets = items
importData(docs) ==
  /\ db = "open"
  /\ cpu = "none"
  /\ \E items \in docs :
       /\ store' = importItems(store, items)
       /\ imported' = [done |-> TRUE, d |-> items, after |-> store']
  /\ UNCHANGED <<wallets, serial, db, cpu, exVars, genVars, caVars, exported, pcall, auto>>

----------------------------------------------------------------------------
(* App.startAutomation (main script) *)

\* history of the last startAutomation(): tick changes with every call; mode;
\* called: executeAll was called; handed: the list it was given
NoAuto == [tick |-> FALSE, mode |-> "none", called |-> FALSE, handed |-> <<>>]

Modes == {"new", "all", "selected"}

\* the names found in the completed lists of the wallets (lines 306-308)
completedNames(ws) == UNION {Range(ws[k].completed) : k \in 1..Len(ws)}

\* a faulty variant of testnetsToRun: in mode 'new' a network is left out
\* only when every wallet has completed it
testnetsToRunForSomeWallet(mode, ws, testnets) ==
  IF mode = "new"
  THEN SelectSeq(testnets,
         LAMBDA t : \E k \in 1..Len(ws) : ~includes(ws[k].completed, t.name))
  ELSE testnets

\* testnetsToRun (lines 303-322): in mode 'new' the networks whose name is
\* in no completed list, in the other modes all of them
testnetsToRun(mode, ws, testnets) ==
  IF mode = "new"
  THEN SelectSeq(testnets, LAMBDA t : t.name \notin completedNames(ws))
  ELSE testnets

\* startAutomation() (lines 286-345) with this.testnets = testnets, up to the
\* first suspension of the executeAll it calls
startAutomation(p, modes, testnets, configs) ==
  /\ db = "open"
  /\ cpu = "none"
  /\ epc[p] = "idle"
  /\ \E mode \in modes :
       LET run == testnetsToRun(mode, wallets, testnets)
           A == [auto EXCEPT !.tick = ~@, !.mode = mode]
       IN
       IF Len(wallets) = 0 \/ Len(testnets) = 0 \/ Len(run) = 0
       THEN /\ auto' = [A EXCEPT !.called = FALSE, !.handed = <<>>]
            /\ UNCHANGED <<wmVars, cpu, exVars, genVars, caVars>>
       ELSE /\ auto' = [A EXCEPT !.called = TRUE, !.handed = run]
            /\ executeAll(p, {run}, configs)
  /\ UNCHANGED <<exported, imported, pcall>>

\* the steps of an executeAll invocation after its call
executing(p, F) ==
  /\ UNCHANGED bkVars
  /\ \/ netLoop(p)
     \/ walletLoop(p)
     \/ taskLoop(p)
     \/ taskDone(p)
     \/ taskPauseDone(p)
     \/ mark(p)
     \/ saveStep(p, F)
     \/ walletPauseDone(p)
     \/ afterTestnet(p)
     \/ netPauseDone(p)

----------------------------------------------------------------------------
(* The state after construction, and the specifications *)

\* the objects of the modules as their constructors leave them
Constructed ==
  /\ wallets = <<>>
  /\ db = "null"
  /\ cpu = "none"
  /\ isRunning = FALSE
  /\ stats = Stats0
  /\ skipped = 0
  /\ epc = [p \in ExecThreads |-> "idle"]
  /\ eloc = [p \in ExecThreads |-> ExecIdle]
  /\ eres = [p \in ExecThreads |-> "none"]
  /\ ehist = [p \in ExecThreads |-> Hist0]
  /\ gpc = [g \in GenThreads |-> "idle"]
  /\ gloc = [g \in GenThreads |-> GenIdle]
  /\ gres = [g \in GenThreads |-> "none"]
  /\ cRunning = FALSE
  /\ cpc = [c \in CascThreads |-> "idle"]
  /\ cloc = [c \in CascThreads |-> CascIdle]
  /\ cres = [c \in CascThreads |-> "none"]
  /\ chist = [c \in CascThreads |-> CHist0]
  /\ exported = NoExport
  /\ imported = NoImport
  /\ pcall = [s \in CallThreads |-> CallIdle]
  /\ auto = NoAuto

\* a first session: nothing is stored
Init ==
  /\ Constructed
  /\ serial = 0
  /\ store = {}

\* a later session: the store may hold what an earlier session saved, here
\* one wallet
StoredBefore == {encryptedWallet(NewWallet("evm", 0, 1), TRUE, TRUE)}

InitStored ==
  /\ Constructed
  /\ store \in {{}, StoredBefore}
  /\ serial = Cardinality(store)

\* the counts tried by the specifications with a small wallet set
SmallCounts == {1, 2}

\* the counts and chain types tried by the specification of the generator:
\* both sides of the two limits, and a chain type that is not supported
GenCounts == {0, 1, 2, 20001}
GenChains == {"evm", "solana", "doge"}

\* the counts tried by the specification of the batches: one wallet, and both
\* sides of one and of several batches
BatchCounts == {1, 99, 100, 101, 250}

\* amounts of a forward cascade, in units of 10^-7: 0.005 and 0.0020004
Amounts == {50000, 20004}
Destinations == {"", "0xdest"}

OneExec == {"e1"}
OneGen == {"g1"}
OneCasc == {"c1"}

generator(g, counts, chains, cap, F) ==
  /\ UNCHANGED bkVars
  /\ \/ generateWallets(g, counts, chains, cap)
     \/ generateResume(g)
     \/ generateSave(g, F)

executor(p, inputs, configs, F) ==
  /\ UNCHANGED bkVars
  /\ \/ executeAll(p, inputs, configs)
     \/ netLoop(p)
     \/ walletLoop(p)
     \/ taskLoop(p)
     \/ taskDone(p)
     \/ taskPauseDone(p)
     \/ mark(p)
     \/ saveStep(p, F)
     \/ walletPauseDone(p)
     \/ afterTestnet(p)
     \/ netPauseDone(p)

cascade(c, amounts, destinations, maxRuns) ==
  /\ UNCHANGED bkVars
  /\ \/ fundForward(c, amounts, maxRuns)
     \/ forwardTx(c)
     \/ fundReverse(c, destinations, maxRuns)
     \/ reverseTx(c)
     \/ cascadePauseDone(c)

\* The executor: wallets are generated by one or several calls, and one
\* invocation of executeAll at a time is started, over the list of the two
\* networks or over an empty list, stopped and started again.
\* In this specification a generation and a run do not overlap.
NoRun == \A p \in ExecThreads : ~Active(p)
NoGeneration == \A g \in GenThreads : gpc[g] = "idle"

Next ==
  \/ init
  \/ \E g \in OneGen :
       NoRun /\ generator(g, SmallCounts, {"evm"}, MaxWallets, NoFaults)
  \/ \E p \in OneExec :
       NoGeneration /\ executor(p, {Testnets, <<>>}, Configs, NoFaults)
  \/ stopAutomation

Spec == Init /\ [][Next]_vars

\* Two invocations of executeAll over a list of one network: a second call
\* may come while the first is suspended.
NextRace ==
  \/ init
  \/ \E g \in OneGen :
       NoRun /\ generator(g, SmallCounts, {"evm"}, MaxWallets, NoFaults)
  \/ \E p \in ExecThreads :
       NoGeneration /\ executor(p, {<<Testnets[2]>>}, {PausingConfig}, NoFaults)
  \/ stopAutomation

SpecRace == Init /\ [][NextRace]_vars

\* the steps that resume an accepted executeAll invocation: every timer,
\* simulated transaction and encrypt call it awaits completes, and its
\* synchronous code runs on
resume(p) ==
  /\ Active(p)
  /\ executor(p, {Testnets}, {PausingConfig}, NoFaults)

\* The executor with every pause taken and the lists in their order, one
\* invocation at a time, over the two networks or an empty list.
NextFair ==
  \/ init
  \/ \E g \in OneGen :
       NoRun /\ generator(g, SmallCounts, {"evm"}, MaxWallets, NoFaults)
  \/ \E p \in OneExec :
       NoGeneration /\ executor(p, {Testnets, <<>>}, {PausingConfig}, NoFaults)
  \/ stopAutomation

\* The same, with every awaited timer and transaction completing.
FairSpec ==
  Init /\ [][NextFair]_vars /\ \A p \in OneExec : WF_vars(resume(p))

\* The generator and the store, with every outcome of encrypt and store.add.
NextGen ==
  \/ init
  \/ \E g \in OneGen : generator(g, GenCounts, GenChains, MaxWallets, AllFaults)

SpecGen == Init /\ [][NextGen]_vars

\* The cascades: one invocation at a time, forward or reverse, and stop.
NextCascade ==
  \/ init
  \/ \E g \in OneGen :
       generator(g, SmallCounts, {"evm"}, MaxCascadeWallets, NoFaults)
  \/ \E c \in OneCasc : cascade(c, Amounts, Destinations, MaxCascadeRuns)
  \/ stopAutomation

SpecCascade == Init /\ [][NextCascade]_vars

\* Two invocations of the cascades, forward with one amount or reverse: a
\* second call may come while the first is suspended.
NextCascadeRace ==
  \/ init
  \/ \E g \in OneGen :
       /\ \A c \in CascThreads : cpc[c] = "idle"
       /\ generator(g, {2}, {"evm"}, MaxWallets, NoFaults)
  \/ \E c \in CascThreads : cascade(c, {50000}, {"0xdest"}, MaxCascadeRuns)
  \/ stopAutomation

SpecCascadeRace == Init /\ [][NextCascadeRace]_vars

\* A run over a list of one network while wallets are generated: the calls
\* of generateWallets and the run overlap.
NextGrow ==
  \/ init
  \/ \E g \in OneGen :
       generator(g, SmallCounts, {"evm"}, MaxWallets, NoFaults)
  \/ \E p \in OneExec :
       executor(p, {<<Testnets[2]>>}, {PausingConfig}, NoFaults)
  \/ stopAutomation

SpecGrow == Init /\ [][NextGrow]_vars

\* The executor and the cascades, one after the other: a run over the
\* network of two tasks and a cascade do not overlap.
NoCascade == \A c \in CascThreads : ~CActive(c)

NextBoth ==
  \/ init
  \/ \E g \in OneGen :
       /\ NoRun /\ NoCascade
       /\ generator(g, {2}, {"evm"}, MaxWallets, NoFaults)
  \/ \E p \in OneExec :
       /\ NoGeneration /\ NoCascade
       /\ executor(p, {<<Testnets[1]>>}, Configs, NoFaults)
  \/ \E c \in OneCasc :
       /\ NoGeneration /\ NoRun
       /\ cascade(c, {50000}, {"0xdest"}, MaxCascadeRuns)
  \/ stopAutomation

SpecBoth == Init /\ [][NextBoth]_vars

\* A run over a parsed network whose tasks are of kinds executeTask has no
\* case for, followed by a network of one known task.
NextKinds ==
  \/ init
  \/ \E g \in OneGen :
       NoRun /\ generator(g, SmallCounts, {"evm"}, MaxWallets, NoFaults)
  \/ \E p \in OneExec :
       /\ NoGeneration
       /\ executor(p, {<<ParsedTestnet, Testnets[2]>>}, {PausingConfig}, NoFaults)
  \/ stopAutomation

SpecKinds == Init /\ [][NextKinds]_vars

\* The batches of the generator: counts below, at and above the batch size,
\* both chain types, every call saved without a fault.
NextBatch ==
  \/ init
  \/ \E g \in OneGen :
       /\ gpc[g] = "idle" => serial < MaxGenerated
       /\ generator(g, BatchCounts, ChainTypes, 2 * MaxCount, NoFaults)

SpecBatch == Init /\ [][NextBatch]_vars

\* The bulk backup: wallets are generated and saved, the store is exported,
\* the wallets are deleted between two generations, and the exported
\* document is imported, at once or later.
NextBackup ==
  \/ init
  \/ \E g \in OneGen :
       /\ gpc[g] = "idle" => serial < MaxGenerated
       /\ generator(g, SmallCounts, {"evm"}, MaxWallets, NoFaults)
  \/ NoGeneration /\ deleteAllWallets
  \/ exportAllData
  \/ exported.made /\ importData({exported.wallets})

SpecBackup == Init /\ [][NextBackup]_vars

\* A run over one network and the cascades over the same wallet set: a run
\* and a cascade overlap, each suspended while the other takes its steps.
NextMix ==
  \/ init
  \/ \E g \in OneGen :
       /\ NoRun /\ NoCascade
       /\ generator(g, {2}, {"evm"}, MaxWallets, NoFaults)
  \/ \E p \in OneExec :
       /\ NoGeneration
       /\ executor(p, {<<Testnets[2]>>}, {PausingConfig}, NoFaults)
  \/ \E c \in OneCasc :
       /\ NoGeneration
       /\ cascade(c, {50000}, {"0xdest"}, MaxCascadeRuns)
  \/ stopAutomation

SpecMix == Init /\ [][NextMix]_vars

\* The application: wallets are generated, and runs are started by
\* startAutomation in each mode over the two networks, one at a time, and
\* stopped.
NextAuto ==
  \/ init
  \/ \E g \in OneGen :
       NoRun /\ generator(g, SmallCounts, {"evm"}, MaxWallets, NoFaults)
  \/ \E p \in OneExec :
       /\ NoGeneration
       /\ \/ startAutomation(p, Modes, Testnets, {PausingConfig})
          \/ executing(p, NoFaults)
  \/ stopAutomation

SpecAuto == Init /\ [][NextAuto]_vars

\* a config with randomizeOrder set: executeTestnet goes over a shuffled copy
\* of the wallet set
ShufflingConfig == [randomizeOrder |-> TRUE, walletDelay |-> 1, testnetDelay |-> 1]

\* the counts of the two overlapping calls of generateWallets: two batches
\* for the first, one batch for the second
SuspendedCounts(g) == IF g = "g1" THEN {batchSize + 1} ELSE {1}

\* Operations interleaved with a generation of two batches that is suspended
\* between or after them, in a first or a later session.  The first caller
\* generates once; while its call is suspended come either runs over a
\* shuffled copy, or cascades, or the call of a second caller, and stop().
\* The interleaved operations start on a small wallet set, and may still be
\* under way when the first call is resumed after its last batch.
FirstSuspended == gpc["g1"] = "delay"
NoRunYet == \A p \in ExecThreads : ~Active(p) /\ eres[p] = "none"
NoCascadeYet == \A c \in CascThreads : ~CActive(c) /\ cres[c] = "none"
NoSecondYet == gpc["g2"] = "idle" /\ gres["g2"] = "none"

NextSuspended ==
  \/ init
  \/ \E g \in GenThreads :
       /\ gpc[g] = "idle" => gres[g] = "none"
       /\ (g = "g2" /\ gpc[g] = "idle")
            => (FirstSuspended /\ NoRunYet /\ NoCascadeYet)
       /\ generator(g, SuspendedCounts(g), {"evm"}, 2 * MaxCount, NoFaults)
  \/ \E p \in OneExec :
       /\ epc[p] = "idle"
            => /\ FirstSuspended /\ NoCascadeYet /\ NoSecondYet
               /\ Len(wallets) <= MaxWallets
       /\ executor(p, {<<Testnets[2]>>}, {ShufflingConfig}, NoFaults)
  \/ \E c \in OneCasc :
       /\ cpc[c] = "idle"
            => /\ FirstSuspended /\ NoRunYet /\ NoSecondYet
               /\ Len(wallets) <= MaxCascadeWallets
       /\ cascade(c, {50000}, {"0xdest"}, MaxCascadeRuns)
  \/ stopAutomation

SpecSuspended == InitStored /\ [][NextSuspended]_vars

\* the sets of failing decrypt calls tried: none, one field of the first
\* record, both of its fields, one field of the second record
Failings ==
  {{}, {<<1, "privateKey">>}, {<<1, "mnemonic">>},
   {<<1, "privateKey">>, <<1, "mnemonic">>}, {<<2, "mnemonic">>}}

NoCall == \A s \in CallThreads : pcall[s].pc = "idle"

\* The wallet manager used directly, in a first or a later session: its
\* saveWallets and loadWallets are called before or after init, between
\* generations.
NextStore ==
  \/ init
  \/ \E g \in OneGen :
       /\ NoCall
       /\ gpc[g] = "idle" => serial < MaxGenerated
       /\ generator(g, SmallCounts, {"evm"}, MaxWallets, NoFaults)
  \/ \E s \in CallThreads :
       /\ NoGeneration
       /\ \/ saveWalletsCall(s)
          \/ saveWalletsStep(s, NoFaults)
          \/ loadWalletsCall(s, Failings)

SpecStore == InitStored /\ [][NextStore]_vars

----------------------------------------------------------------------------
(* The claims *)

\* C1: at any time at most one executeAll invocation is active (accepted and
\* not yet returned), in every interleaving of executeAll() and stop().
C1_AtMostOneActive == Cardinality({p \in ExecThreads : Active(p)}) <= 1

\* C2, as stated: at every suspension point of a run and after it returns,
\* completed = successful + failed.
C2_CompletedIsSuccessfulPlusFailed ==
  cpu = "none" => stats.completed = stats.successful + stats.failed

\* C2, amended: at every suspension point of a run and after it returns,
\* completed = successful + failed + the number of units skipped as already
\* completed since the counters were reset.
C2_CompletedCountsSkipped ==
  cpu = "none" => stats.completed = stats.successful + stats.failed + skipped

\* C2, the case: a run with a skipped, a successful and a failed unit
C2_Witness ==
  /\ cpu = "none"
  /\ skipped > 0
  /\ stats.successful > 0
  /\ stats.failed > 0

\* a call that has returned after walking its networks
Returned(p) == epc[p] = "idle" /\ eres[p] \in {"completed", "stopped"}

\* the control points inside a unit that is being executed
InUnit(p) == epc[p] \in {"taskLoop", "tx", "taskPause", "mark", "enc"}

\* C3, as stated: a run that follows a run which ended "completed" over the
\* same networks and wallets ends with successful = 0 and failed = 0.
C3_SecondRunCountsNothing ==
  \A p \in ExecThreads :
    (Returned(p) /\ ehist[p].again /\ ehist[p].nw = Len(wallets))
      => (stats.successful = 0 /\ stats.failed = 0)

\* C3, amended: a run accepted when every wallet of the set lists every
\* network of the list executes no task and counts no success and no failure,
\* as long as no wallet is added.
C3_RunOverCompletedSetCountsNothing ==
  \A p \in ExecThreads :
    (ehist[p].fresh /\ ehist[p].nw = Len(wallets))
      => (stats.successful = 0 /\ stats.failed = 0 /\ ~InUnit(p))

\* C3, the case: a second run over a completed set has walked every unit
C3_Witness ==
  \E p \in ExecThreads :
    /\ Returned(p)
    /\ eres[p] = "completed"
    /\ ehist[p].fresh
    /\ ehist[p].again
    /\ ehist[p].nw = Len(wallets)
    /\ stats.completed = stats.totalTasks
    /\ stats.totalTasks = 4

\* C4: after a unit that ended in the success branch, the network name is in
\* the completed list of the wallet the engine was iterating.
C4_CompletionOnIteratedWallet ==
  \A p \in ExecThreads :
    ehist[p].okUnit # <<>>
      => includes(wallets[ehist[p].okUnit[1]].completed, ehist[p].okUnit[2])

\* C5: the index values of the wallets of the set are pairwise distinct.
C5_IndexesDistinct ==
  \A i, j \in 1..Len(wallets) : i # j => wallets[i].index # wallets[j].index

\* C6: no record of the persisted store holds the plaintext private key or
\* mnemonic of a wallet.
C6_NoPlaintextInStore ==
  \A r \in store, k \in 1..Len(wallets) :
    /\ r.privateKey # wallets[k].privateKey
    /\ r.mnemonic # wallets[k].mnemonic

\* a step of p that starts a network, a wallet (skipped or executed) or a task
StartsWork(p) ==
  \/ epc[p] = "netLoop" /\ epc'[p] = "walletLoop"
  \/ epc[p] = "walletLoop" /\ (epc'[p] = "taskLoop" \/ stats' # stats)
  \/ epc[p] = "taskLoop" /\ epc'[p] \in {"tx", "taskPause"}

\* C7: once stop() was called during a run and no executeAll was accepted
\* since, the run starts no further network, wallet or task, and when it has
\* returned it has reported "stopped" and isRunning is false.
C7_StopTakesEffect ==
  /\ [][\A p \in ExecThreads : ehist[p].stopSeen => ~StartsWork(p)]_vars
  /\ [](\A p \in ExecThreads :
          (ehist[p].stopSeen /\ epc[p] = "idle")
            => (~isRunning /\ eres[p] = "stopped"))

\* C7, the case: stop() came while a task was in flight; the task ended, its
\* unit was counted, and the run returned before the last unit
C7_Witness ==
  \E p \in ExecThreads :
    /\ ehist[p].stopSeen
    /\ epc[p] = "idle"
    /\ eres[p] = "stopped"
    /\ stats.completed >= 1
    /\ stats.completed < stats.totalTasks

\* C8: in a forward cascade, after the transfer of link i failed no link
\* j > i is attempted and every wallet at a position greater than i has the
\* balance it had when the cascade started.
C8_ForwardFailureHalts ==
  \A c \in OneCasc :
    LET h == chist[c] IN
    (h.mode = "forward" /\ h.failedAt >= 0)
      => /\ \A a \in Range(h.attempts) : a <= h.failedAt
         /\ \A k \in (h.failedAt + 2)..Len(h.before) :
              wallets[k].balance = h.before[k]

\* C8, the case: link 0 succeeded, link 1 failed, and a wallet lies beyond
C8_Witness ==
  \E c \in OneCasc :
    /\ chist[c].mode = "forward"
    /\ chist[c].failedAt = 1
    /\ Len(chist[c].before) >= 3
    /\ wallets[1].balance # chist[c].before[1]
    /\ cres[c] = "failed"

\* C9: a reverse cascade attempts the transfers in the order n-1 down to 0,
\* one per wallet; when it has returned and stop() was not called during it,
\* every wallet had its attempt, whichever transfers failed.
C9_ReverseAttemptsAll ==
  \A c \in OneCasc :
    LET h == chist[c]
        n == Len(h.before)
    IN
    h.mode = "reverse"
      => /\ \A k \in 1..Len(h.attempts) : h.attempts[k] = n - k
         /\ (cpc[c] = "idle" /\ ~h.stopSeen) => Len(h.attempts) = n

\* C9, the case: a reverse cascade over three wallets in which a transfer
\* that was not the last one failed and one succeeded
C9_Witness ==
  \E c \in OneCasc :
    /\ chist[c].mode = "reverse"
    /\ cpc[c] = "idle"
    /\ ~chist[c].stopSeen
    /\ chist[c].failedAt >= 0
    /\ Len(chist[c].attempts) = 3
    /\ \E k \in 1..3 : wallets[k].balance # chist[c].before[k]

\* C10: a generateWallets call that raised an error has left the in-memory
\* wallet set as it was before the call.
C10_ErrorKeepsNoRecord ==
  \A g \in GenThreads :
    (gpc[g] = "idle" /\ gres[g] = "error") => wallets = gloc[g].before

\* C11: after importData(d) has returned, the collection holds exactly the
\* entries of d.data[name], also when that list is empty; so the import of an
\* exported document reproduces the exported records whatever the store held.
C11_ImportReplacesCollection ==
  imported.done => imported.after = Range(imported.d)

\* C12: at every suspension point of a run and after it returns, completed
\* <= totalTasks, also when generateWallets appends wallets during the run.
C12_CompletedWithinTotal ==
  cpu = "none" => stats.completed <= stats.totalTasks

\* C13: when a task of a unit raises, failed grows by exactly 1 and
\* successful stays, no wallet record changes (the network is not recorded),
\* isRunning stays, and the run goes on with the next wallet of the same
\* network; no further task of a unit that failed is executed.
C13_TaskFailureEndsUnitOnly ==
  /\ [][\A p \in ExecThreads :
          (epc[p] = "tx" /\ epc'[p] # "tx" /\ ehist'[p].raised)
            => /\ stats'.failed = stats.failed + 1
               /\ stats'.successful = stats.successful
               /\ wallets' = wallets
               /\ isRunning' = isRunning
               /\ epc'[p] \in {"walletLoop", "walletPause"}
               /\ eloc'[p].ti = eloc[p].ti
               /\ epc'[p] = "walletLoop" => eloc'[p].wi = eloc[p].wi + 1]_vars
  /\ [](\A p \in ExecThreads :
          InUnit(p) => unitOf(eloc[p]) \notin ehist[p].failedUnits)

\* C13, the case: the first of the two tasks of a unit raised, the second was
\* never invoked, and the run went on to the next wallet and to the end
C13_Witness ==
  \E p \in ExecThreads :
    /\ Returned(p)
    /\ eres[p] = "completed"
    /\ ~ehist[p].stopCalled
    /\ <<"A", 1>> \in ehist[p].failedUnits
    /\ <<"A", 1, 1>> \in ehist[p].tasks
    /\ <<"A", 1, 2>> \notin ehist[p].tasks
    /\ <<"A", 2>> \in ehist[p].units
    /\ ~includes(wallets[1].completed, "A")
    /\ stats.successful >= 1

\* C14: at any time at most one cascade, forward or reverse, is active, in
\* every interleaving of fundForward(), fundReverse() and stop().
C14_AtMostOneCascade == Cardinality({c \in CascThreads : CActive(c)}) <= 1

\* C15: an invocation that was accepted and has returned reported "completed"
\* exactly when it traversed all networks and stop() was not called during
\* it, "stopped" exactly when stop() was called during it, and the error
\* exactly when the wallet set or the network list was empty.
C15_OutcomeMatchesRun ==
  \A p \in ExecThreads :
    (epc[p] = "idle" /\ eres[p] \in {"completed", "stopped", "error"})
      => /\ eres[p] = "completed"
              <=> (ehist[p].traversed /\ ~ehist[p].stopCalled)
         /\ eres[p] = "stopped" <=> ehist[p].stopCalled
         /\ eres[p] = "error" <=> ehist[p].emptyInput

\* C16: every accepted executeAll invocation eventually returns, and when an
\* invocation returns, on the completed, stopped or failed path, isRunning
\* is false.
C16_AcceptedRunReturns ==
  /\ \A p \in ExecThreads : Active(p) ~> ~Active(p)
  /\ [][\A p \in ExecThreads :
          (\/ Active(p) /\ epc'[p] = "idle"
           \/ epc[p] = "idle" /\ eres[p] # "error" /\ eres'[p] = "error")
            => ~isRunning']_vars

\* C16, the case: a run over four units has returned on the completed path
\* after two failures, and the flag is down
C16_Witness ==
  \E p \in ExecThreads :
    /\ epc[p] = "idle"
    /\ eres[p] = "completed"
    /\ ~isRunning
    /\ stats.totalTasks = 4
    /\ stats.completed = 4
    /\ stats.failed = 2

\* C17: when the engine reaches a unit whose wallet already lists the
\* network, the step executes no task, adds exactly 1 to completed, and leaves
\* successful, failed, the wallet records and the store as they were.
C17_SkipCountsOnly ==
  [][\A p \in ExecThreads :
       (/\ cpu = p
        /\ epc[p] = "walletLoop"
        /\ eloc[p].wi <= numWallets(eloc[p])
        /\ isRunning
        /\ includes(wallets[walletAt(eloc[p])].completed,
                    eloc[p].tn[eloc[p].ti].name))
         => /\ stats' = [stats EXCEPT !.completed = @ + 1]
            /\ wallets' = wallets
            /\ store' = store
            /\ epc'[p] = "walletLoop"
            /\ eloc'[p].wi = eloc[p].wi + 1
            /\ ehist'[p].units = ehist[p].units
            /\ ehist'[p].tasks = ehist[p].tasks]_vars

\* C17, the case: the first unit of a run was skipped and nothing else counted
C17_Witness ==
  \E p \in ExecThreads :
    /\ epc[p] = "walletLoop"
    /\ skipped = 1
    /\ stats.completed = 1
    /\ stats.successful = 0
    /\ stats.failed = 0
    /\ ehist[p].units = {}
    /\ eloc[p].wi = 2

\* C18: an executeAll call accepted with an empty wallet set or an empty
\* network list returns at once with the error: it starts no unit and no
\* task, changes no wallet record and no store entry, and leaves isRunning
\* false.
C18_EmptyInputAborts ==
  /\ [](\A p \in ExecThreads :
          ehist[p].emptyInput
            => /\ epc[p] = "idle"
               /\ eres[p] \in {"error", "rejected"}
               /\ ehist[p].units = {}
               /\ ehist[p].tasks = {})
  /\ [][\A p \in ExecThreads :
          (epc[p] = "idle" /\ ehist'[p].emptyInput /\ exVars' # exVars)
            => /\ wallets' = wallets
               /\ store' = store
               /\ ~isRunning'
               /\ epc'[p] = "idle"]_vars

\* C18, the case: with wallets generated and saved, a call over an empty
\* network list has ended with the error
C18_Witness ==
  \E p \in ExecThreads :
    /\ ehist[p].emptyInput
    /\ eres[p] = "error"
    /\ epc[p] = "idle"
    /\ Len(wallets) = 2
    /\ store # {}
    /\ ~isRunning

NoRepeat(s) == \A i, j \in 1..Len(s) : i # j => s[i] # s[j]

\* C19: within one executeAll run no unit is started twice and no task of a
\* unit is invoked twice, and within one cascade no wallet position has two
\* transfer attempts.
C19_NoRetry ==
  /\ \A p \in ExecThreads : ~ehist[p].repeated
  /\ \A c \in CascThreads : NoRepeat(chist[c].attempts)

\* C19, the case: a run with a failed unit went on to the end, and a reverse
\* cascade with a failed transfer went on to the last wallet
C19_Witness ==
  \E p \in ExecThreads, c \in CascThreads :
    /\ Returned(p)
    /\ eres[p] = "completed"
    /\ ehist[p].failedUnits # {}
    /\ Cardinality(ehist[p].units) = 2
    /\ cpc[c] = "idle"
    /\ chist[c].mode = "reverse"
    /\ chist[c].failedAt >= 0
    /\ Len(chist[c].attempts) = 2

\* C20: a unit whose tasks are all of unknown kind changes neither successful
\* nor failed: while a run that was not stopped is in its first network and
\* that network has only tasks of unknown kind, both counters are 0.
C20_UnknownKindsCountNothing ==
  \A p \in ExecThreads :
    (/\ Active(p)
     /\ ~ehist[p].stopCalled
     /\ eloc[p].ti = 1
     /\ Range(eloc[p].tn[1].tasks) \cap KnownTasks = {})
      => (stats.successful = 0 /\ stats.failed = 0)

\* a generateWallets call whose loop over the batches has ended
LoopOver(g) ==
  /\ ~countRejected(gloc[g].count)
  /\ gloc[g].chainType \in ChainTypes
  /\ gloc[g].i >= gloc[g].count

\* C21: a generateWallets call with 1 <= count <= 20000 has produced exactly
\* count new records, in ceil(count/100) batches of size 100 except possibly
\* the last, the wallet set has grown by exactly count, and when the call
\* returns the set is the previous set followed by the new records.
C21_CountRecordsInBatches ==
  \A g \in GenThreads :
    LoopOver(g) =>
      LET L == gloc[g]
          n == (L.count + 99) \div 100
      IN
      /\ Len(L.newWallets) = L.count
      /\ Len(L.batches) = n
      /\ \A k \in 1..(n - 1) : L.batches[k] = 100
      /\ L.batches[n] = L.count - 100 * (n - 1)
      /\ L.batches[n] \in 1..100
      /\ Len(wallets) = Len(L.before) + L.count
      /\ (gpc[g] = "idle" /\ gres[g] = "ok") => wallets = L.before \o L.newWallets

\* C21, the case: a call for 250 wallets has returned after three batches
C21_Witness ==
  \E g \in GenThreads :
    /\ gpc[g] = "idle"
    /\ gres[g] = "ok"
    /\ gloc[g].count = 250
    /\ gloc[g].batches = <<100, 100, 50>>
    /\ Len(wallets) = 250
    /\ Cardinality(store) = 250

\* a count outside the limits the specification gives
OutOfRange(count) == count < 1 \/ count > 20000

\* C22: a generateWallets call with count < 1 or count > 20000 ends with the
\* error in the step of the call: no record is generated, no progress is
\* emitted, and the wallet set and the store are left as they were.
C22_CountOutOfRangeRejected ==
  /\ [](\A g \in OneGen :
          (OutOfRange(gloc[g].count) /\ gres[g] # "none")
            => /\ gpc[g] = "idle"
               /\ gres[g] = "error"
               /\ gloc[g].newWallets = <<>>
               /\ gloc[g].batches = <<>>
               /\ gloc[g].progress = <<>>
               /\ wallets = gloc[g].before)
  /\ [][\A g \in OneGen :
          (gpc[g] = "idle" /\ OutOfRange(gloc'[g].count) /\ genVars' # genVars)
            => /\ wallets' = wallets
               /\ store' = store
               /\ serial' = serial]_vars

\* C22, the case: with a wallet generated and saved, a call with a count
\* above the limit has ended with the error
C22_Witness ==
  \E g \in GenThreads :
    /\ gloc[g].count = 20001
    /\ gres[g] = "error"
    /\ gpc[g] = "idle"
    /\ Len(wallets) = 1
    /\ Cardinality(store) = 1

\* C23: saveWallets and loadWallets fail with an error when the database
\* handle was never opened: a call that returned as if it had succeeded was
\* made with the handle open.
C23_UnavailableStoreFails ==
  \A s \in CallThreads :
    pcall[s].res = "ok" => pcall[s].handle = "open"

\* the store that holds all of the wallet set ws and nothing else
Persisted(ws) == {encryptedWallet(ws[k], TRUE, TRUE) : k \in 1..Len(ws)}

\* a saveWallets called by generateWallets / by markTestnetCompleted returns
\* in this step
GenSaveReturns(g) == gres[g] # "ok" /\ gres'[g] = "ok"

MarkSaveReturns(p) ==
  epc[p] = "enc" /\ epc'[p] # "enc" /\ stats'.successful = stats.successful + 1

\* C24: saveWallets replaces the persisted collection atomically: a step
\* that changes the store leaves the complete new set in it (so that what can
\* be observed is the complete previous set or the complete new set), and
\* when a saveWallets returns the store holds the in-memory wallet set, also
\* when the save of generateWallets and that of markTestnetCompleted overlap.
C24_SaveAtomic ==
  [][/\ store' # store => store' = Persisted(wallets')
     /\ \A g \in GenThreads : GenSaveReturns(g) => store' = Persisted(wallets')
     /\ \A p \in OneExec : MarkSaveReturns(p) => store' = Persisted(wallets')]_vars

\* the second part of C24 alone: when a saveWallets returns, the store holds
\* the in-memory wallet set
ReturnedSaveIsComplete ==
  [][/\ \A g \in GenThreads : GenSaveReturns(g) => store' = Persisted(wallets')
     /\ \A p \in OneExec : MarkSaveReturns(p) => store' = Persisted(wallets')]_vars

\* a direct loadWallets() returns in this step, having read the store as the
\* last direct saveWallets() left it, both with the database open
LoadsWhatWasSaved(s) ==
  /\ pcall'[s] # pcall[s]
  /\ pcall'[s].op = "load"
  /\ pcall'[s].handle = "open"
  /\ pcall[s].hasSaved
  /\ pcall[s].savedWith = "open"
  /\ pcall'[s].loadedFrom = pcall[s].savedStore

\* C25: saveWallets followed by loadWallets, with no failure, yields the
\* wallet set that was saved: the same records, privateKey and mnemonic with
\* the values they had before the save.
C25_SaveThenLoad ==
  [][\A s \in CallThreads :
       LoadsWhatWasSaved(s) /\ pcall'[s].failing = {}
         => wallets' = pcall[s].saved]_vars

\* C25, its case: two generated wallets were saved, and the load that
\* followed has read them back
C25_Witness ==
  \E s \in CallThreads :
    LET C == pcall[s] IN
    /\ C.op = "load" /\ C.handle = "open" /\ C.failing = {}
    /\ C.hasSaved /\ C.savedWith = "open" /\ C.loadedFrom = C.savedStore
    /\ Len(C.saved) = 2
    /\ C.saved[2].privateKey = <<"pk", 2>>
    /\ wallets = C.saved

\* a record without its two secret fields
Public(w) == [w EXCEPT !.privateKey = NoData, !.mnemonic = NoData]

\* C26: when decrypt calls of a load fail, loadWallets does not raise: each
\* field whose decrypt failed is the stored value unchanged, every other field
\* of every record is loaded (the secret ones decrypted), and the loaded set
\* has as many records as the store.
C26_DecryptFailureKeepsField ==
  [][\A s \in CallThreads :
       pcall'[s] # pcall[s] /\ pcall'[s].op = "load" /\ pcall'[s].handle = "open"
         => LET all == getAll(store) IN
            /\ pcall'[s].res = "ok"
            /\ Len(wallets') = Cardinality(store)
            /\ \A k \in 1..Len(all) :
                 /\ Public(wallets'[k]) = Public(all[k])
                 /\ \A f \in SecretFields :
                      IF <<k, f>> \in pcall'[s].failing
                      THEN wallets'[k][f] = all[k][f]
                      ELSE <<"enc">> \o wallets'[k][f] = all[k][f]]_vars

\* C26, its case: of two stored wallets the mnemonic of the first could not be
\* decrypted; it is loaded as stored, the other three fields are decrypted
C26_Witness ==
  \E s \in CallThreads :
    /\ pcall[s].op = "load" /\ pcall[s].handle = "open"
    /\ pcall[s].failing = {<<1, "mnemonic">>}
    /\ Cardinality(pcall[s].loadedFrom) = 2
    /\ Len(wallets) = 2
    /\ wallets[1].mnemonic = <<"enc", "mn", 1>>
    /\ wallets[1].privateKey = <<"pk", 1>>
    /\ wallets[2].mnemonic = <<"mn", 2>>

\* C27: in every reachable state no wallet's completed list holds a network
\* name twice, and no step takes a name out of a list unless it deletes all
\* wallets, also when two executeAll runs recording completions interleave.
C27_CompletedListsGrow ==
  /\ [](\A k \in 1..Len(wallets) : NoRepeat(wallets[k].completed))
  /\ [][wallets' # <<>>
          => \A k \in 1..Len(wallets) :
               /\ k <= Len(wallets')
               /\ Range(wallets[k].completed) \subseteq Range(wallets'[k].completed)]_vars

\* C27, its case: two runs have each ended the unit of the first wallet and
\* the network B in the success branch, and the wallet lists B once
C27_Witness ==
  /\ \A p \in ExecThreads : ehist[p].okUnit = <<1, "B">>
  /\ Len(wallets) >= 1
  /\ wallets[1].completed = <<"B">>

completedLists(ws) == [k \in 1..Len(ws) |-> ws[k].completed]

\* a step of an executeAll invocation / of a fundForward or fundReverse
\* invocation: its control point, its locals, its outcome or the statistics
\* change
ExecStep == <<epc, eloc, eres, stats>>' # <<epc, eloc, eres, stats>>

CascStep == <<cpc, cloc, cres>>' # <<cpc, cloc, cres>>

\* C28: no step of an executeAll run changes a balance and no step of a
\* cascade changes a completed list, also when a run and a cascade are
\* interleaved over the same wallet set.
C28_BalanceAndCompletedFrames ==
  [][/\ ExecStep => balances(wallets') = balances(wallets)
     /\ CascStep => completedLists(wallets') = completedLists(wallets)]_vars

\* C28, its case: a run and a cascade are both under way, over a wallet with
\* a recorded completion and a changed balance
C28_Witness ==
  \E p \in OneExec, c \in OneCasc :
    /\ Active(p)
    /\ CActive(c)
    /\ Len(wallets) = 2
    /\ wallets[1].completed # <<>>
    /\ wallets[1].balance # 0
    /\ wallets[2].balance # 0

\* C29: fundForward with fewer than 2 wallets, and fundReverse with no wallet
\* or an empty destination, are rejected before they start: a cascade that
\* started had its wallets (and its destination), and the step that refuses a
\* call attempts no transfer, changes no wallet and leaves isRunning false.
C29_RefusedBeforeStart ==
  /\ [](\A c \in CascThreads :
          /\ chist[c].mode = "forward" => Len(chist[c].before) >= 2
          /\ chist[c].mode = "reverse"
               => Len(chist[c].before) >= 1 /\ chist[c].destination # "")
  /\ [][\A c \in CascThreads :
          (cres'[c] = "refused" /\ cres[c] # "refused")
            => /\ wallets' = wallets
               /\ ~cRunning /\ ~cRunning'
               /\ cpc'[c] = "idle"
               /\ chist'[c] = chist[c]]_vars

\* C29, its case: with one wallet in the set and no cascade started yet, a
\* call was refused
C29_Witness ==
  \E c \in OneCasc :
    /\ cres[c] = "refused"
    /\ Len(wallets) = 1
    /\ chist[c].runs = 0
    /\ ~cRunning
    /\ wallets[1].balance = 0

\* the transfer of link i of a forward cascade succeeds in this step
LinkSucceeds(c) == cpc[c] = "ftx" /\ cpc'[c] = "pause"

\* what a successful link does to the balances when it moves `debit` out of
\* the sender and `credit` into the receiver (units of 10^-7)
LinkMoves(c, debit, credit) ==
  LET i == cloc[c].i IN
  /\ Len(wallets') = Len(wallets)
  /\ \A k \in 1..Len(wallets) :
       parseBalance(wallets'[k].balance) =
         parseBalance(wallets[k].balance)
           - (IF k = i + 1 THEN debit ELSE 0) + (IF k = i + 2 THEN credit ELSE 0)

\* C30: each successful forward link i decreases the balance of wallet i by
\* exactly amount, increases that of wallet i+1 by exactly amount - gasBuffer
\* and leaves every other balance unchanged (so that the sum of the balances
\* decreases by gasBuffer with every link).
C30_ForwardLinkExact ==
  [][\A c \in CascThreads :
       LinkSucceeds(c)
         => LinkMoves(c, cloc[c].amount, cloc[c].amount - cloc[c].gasBuffer)]_vars

\* the same for the amounts that six decimals can hold
ForwardLinkExactInSixDecimals ==
  [][\A c \in CascThreads :
       LinkSucceeds(c) /\ cloc[c].amount % 10 = 0 /\ cloc[c].gasBuffer % 10 = 0
         => LinkMoves(c, cloc[c].amount, cloc[c].amount - cloc[c].gasBuffer)]_vars

\* the transfer of a reverse position succeeds in this step
ReverseSucceeds(c) == cpc[c] = "rtx" /\ cpc'[c] = "pause"

\* C31: a successful reverse transfer from wallet i leaves the balance of
\* wallet i at the reserve 0.001 (1000 units of 10^-6) and changes no other
\* wallet: the wallet i-1 is not credited.
C31_ReverseLeavesReserve ==
  [][\A c \in CascThreads :
       ReverseSucceeds(c)
         => /\ Len(wallets') = Len(wallets)
            /\ wallets'[cloc[c].i + 1].balance = 1000
            /\ \A k \in 1..Len(wallets) :
                 k # cloc[c].i + 1 => wallets'[k] = wallets[k]]_vars

\* C31, its case: the second wallet held more than the reserve and its
\* transfer succeeded; the first wallet has the balance it had
C31_Witness ==
  \E c \in OneCasc :
    /\ cpc[c] = "pause"
    /\ cloc[c].mode = "reverse"
    /\ cloc[c].i = 1
    /\ chist[c].before[2] > 1000
    /\ wallets[2].balance = 1000
    /\ wallets[1].balance = chist[c].before[1]

\* the transfer of a reverse position ends in this step
ReverseEnds(c) == cpc[c] = "rtx" /\ <<cpc[c], cloc[c], cres[c]>>' # <<cpc[c], cloc[c], cres[c]>>

\* C32: in fundReverse the transfer of a wallet whose balance is not above
\* the reserve 0.001 fails: the balance stays, the failure is recorded and the
\* traversal goes on to the next wallet (or, after wallet 0 or a stop(), ends
\* as completed), as after a network failure.
C32_AtReserveFailsAndGoesOn ==
  [][\A c \in CascThreads :
       LET i == cloc[c].i IN
       ReverseEnds(c) /\ wallets[i + 1].balance <= 1000
         => /\ wallets' = wallets
            /\ chist'[c].failedAt = i
            /\ IF i > 0 /\ cRunning
               THEN cpc'[c] = "rtx" /\ cloc'[c].i = i - 1
               ELSE cpc'[c] = "idle" /\ cres'[c] = "completed"]_vars

\* C32, its case: the last of three fresh wallets failed for its balance "0"
\* and the traversal is at the wallet before it
C32_Witness ==
  \E c \in OneCasc :
    /\ cpc[c] = "rtx"
    /\ cloc[c].mode = "reverse"
    /\ Len(wallets) = 3
    /\ cloc[c].i = 1
    /\ chist[c].failedAt = 2
    /\ chist[c].before[3] = 0
    /\ wallets[3].balance = 0

\* the position whose transfer was attempted last
LastAttempt(h) == h.attempts[Len(h.attempts)]

\* the wallets (from 1) a cascade with the history h has not reached
NotReached(h) ==
  IF h.mode = "forward"
  THEN {k \in 1..Len(h.before) : k > LastAttempt(h) + 2}
  ELSE {k \in 1..Len(h.before) : k < LastAttempt(h) + 1}

\* C33: once stop() was called during a cascade, and as long as no new
\* cascade is started, no transfer of a further position is started (the one
\* in flight may end), the wallets not reached
\* keep the balances they had when the cascade started, and when the cascade
\* has returned isRunning is false.
C33_CascadeStopTakesEffect ==
  /\ [][\A c \in OneCasc :
          chist[c].stopSeen /\ chist'[c].runs = chist[c].runs
            => chist'[c].attempts = chist[c].attempts]_vars
  /\ [](\A c \in OneCasc :
          chist[c].stopSeen
            => /\ \A k \in NotReached(chist[c]) :
                    wallets[k].balance = chist[c].before[k]
               /\ cpc[c] = "idle" => ~cRunning)

\* C33, its case: stop() came during the first link of a forward cascade over
\* three wallets; the link was transferred, the second was not attempted
C33_Witness ==
  \E c \in OneCasc :
    /\ chist[c].stopSeen
    /\ cpc[c] = "idle"
    /\ chist[c].mode = "forward"
    /\ Len(chist[c].before) = 3
    /\ chist[c].attempts = <<0>>
    /\ wallets[1].balance # chist[c].before[1]
    /\ wallets[3].balance = chist[c].before[3]

\* executeAll is called by the invocation p in this step
Called(p) ==
  epc[p] = "idle" /\ (eres'[p] # eres[p] \/ epc'[p] # epc[p])

\* the step changes neither the flag nor the statistics, starts nothing and
\* leaves the wallet records alone
NoOp(p) ==
  /\ isRunning' = isRunning
  /\ stats' = stats
  /\ epc'[p] = "idle"
  /\ wallets' = wallets

\* C34: executeAll called while a run is active (an invocation has not
\* returned yet) returns at once as a no-op: isRunning and the statistics of
\* the active run stay, no task is started and no wallet record changes.
C34_CallDuringRunIsNoOp ==
  [][\A p \in ExecThreads :
       Called(p) /\ (\E q \in ExecThreads \ {p} : Active(q)) => NoOp(p)]_vars

\* the same for the calls made while the flag isRunning is set
CallWhileFlagSetIsNoOp ==
  [][\A p \in ExecThreads : Called(p) /\ isRunning => NoOp(p)]_vars

\* the sum of the first k elements of a sequence of numbers
RECURSIVE SumTo(_, _)
SumTo(seq, k) == IF k = 0 THEN 0 ELSE SumTo(seq, k - 1) + seq[k]

\* p is done / count * 100 rounded to the nearest integer, halves upwards
IsRoundedPercent(p, done, count) ==
  /\ 2 * count * p <= 200 * done + count
  /\ 200 * done + count < 2 * count * (p + 1)

\* C35: during generateWallets(count, ...) one progress value is emitted per
\* batch, equal to round(itemsDone / count * 100) with itemsDone the records
\* generated so far; the sequence does not decrease, every value is in
\* 0..100, and when the loop has ended the last value is 100.
C35_ProgressPerBatch ==
  \A g \in GenThreads :
    LET L == gloc[g] IN
    /\ Len(L.progress) = Len(L.batches)
    /\ \A k \in 1..Len(L.progress) :
         /\ IsRoundedPercent(L.progress[k], SumTo(L.batches, k), L.count)
         /\ L.progress[k] \in 0..100
         /\ k > 1 => L.progress[k - 1] <= L.progress[k]
    /\ SumTo(L.batches, Len(L.batches)) = Len(L.newWallets)
    /\ LoopOver(g) => L.progress[Len(L.progress)] = 100

\* C35, its case: a call for 250 wallets has emitted 40, 80 and 100
C35_Witness ==
  \E g \in GenThreads :
    /\ gloc[g].count = 250
    /\ gloc[g].progress = <<40, 80, 100>>
    /\ LoopOver(g)

\* the tasks listed on the network called name
TasksOf(name) ==
  LET t == CHOOSE t \in Range(Testnets) : t.name = name IN t.tasks

\* every task of the unit that p ended last in the success branch was invoked
AllTasksRan(p) ==
  LET w == ehist[p].okUnit[1]
      name == ehist[p].okUnit[2]
  IN \A k \in 1..Len(TasksOf(name)) : <<name, w, k>> \in ehist[p].tasks

\* C36: a unit ends in the success branch (the network name is recorded for
\* the wallet and successful is incremented) only if every task listed on
\* the network was executed for the wallet in that unit, also when stop() is
\* called while the tasks of the unit are in progress.
C36_CompletionMeansAllTasksRan ==
  \A p \in OneExec : ehist[p].okUnit # <<>> => AllTasksRan(p)

\* the same for the runs during which stop() was not called
CompletionOfUnstoppedRun ==
  \A p \in OneExec :
    ehist[p].okUnit # <<>> /\ ~ehist[p].stopCalled => AllTasksRan(p)

\* C37: in every reachable state the balance of every wallet is at least 0.
C37_BalancesNonNegative ==
  \A k \in 1..Len(wallets) : wallets[k].balance >= 0

\* startAutomation() is called in this step
AutoCalled == auto'.tick # auto.tick

\* the networks of the application whose name is in no wallet's list
NotYetCompleted ==
  SelectSeq(Testnets,
    LAMBDA t : \A k \in 1..Len(wallets) : t.name \notin Range(wallets[k].completed))

\* C38: in the mode 'new' the networks handed to executeAll are exactly those
\* whose name is in no wallet's completed list (a network that one wallet has
\* completed is not scheduled for the others either), and when there is none
\* executeAll is not called: nothing of the executor changes.
C38_NewModeSchedulesUncompleted ==
  [][AutoCalled /\ auto'.mode = "new" /\ Len(wallets) > 0
       => /\ auto'.called <=> NotYetCompleted # <<>>
          /\ auto'.called => auto'.handed = NotYetCompleted
          /\ ~auto'.called => exVars' = exVars
          /\ \A p \in OneExec :
               epc'[p] # epc[p] => eloc'[p].tn = NotYetCompleted]_vars

\* C38, its case: the first of two wallets has completed A, the second has
\* not, and a start in the mode 'new' has handed over B alone
C38_Witness ==
  /\ auto.mode = "new"
  /\ auto.called
  /\ auto.handed = <<Testnets[2]>>
  /\ Len(wallets) = 2
  /\ wallets[1].completed = <<"A">>
  /\ wallets[2].completed = <<>>

\* the cascade with the history h went over its whole chain of n wallets:
\* every link of a forward cascade was attempted and none failed; a reverse
\* cascade came to wallet 0
WholeChain(h, n) ==
  IF h.mode = "forward"
  THEN Len(h.attempts) = n - 1 /\ h.failedAt = -1
  ELSE LastAttempt(h) = 0

\* the step in which the cascade c reports 'completed'
ReportsCompleted(c) ==
  cpc[c] # "idle" /\ cpc'[c] = "idle" /\ cres'[c] = "completed"

\* C39: a cascade reports 'completed' only if it went over its whole chain;
\* a cascade cut short by stop() does not report completion.
C39_CompletedMeansWholeChain ==
  [][\A c \in OneCasc :
       ReportsCompleted(c) => WholeChain(chist'[c], Len(wallets'))]_vars

\* the same for the cascades during which stop() was not called
CompletedWithoutStop ==
  [][\A c \in OneCasc :
       (ReportsCompleted(c) /\ ~chist'[c].stopSeen)
         => WholeChain(chist'[c], Len(wallets'))]_vars

\* the secrets of the records of the list ws
KeysOf(ws) == {ws[k].privateKey : k \in 1..Len(ws)}

\* the call g of generateWallets is suspended after a batch
Suspended(g) == gpc[g] = "delay"

\* C40: while a call of generateWallets is suspended after a batch, none of
\* the records it has generated is in the wallet set that the interleaved
\* operations see, and the steps of the call that generate a batch leave the
\* wallet set as it is; the step that ends the suspension after the last
\* batch adds all the records of the call at once.
C40_NewRecordsVisibleAtOnce ==
  /\ [](\A g \in GenThreads :
         Suspended(g) => KeysOf(gloc[g].newWallets) \cap KeysOf(wallets) = {})
  /\ [][\A g \in GenThreads :
         /\ (gloc'[g] # gloc[g] /\ Suspended(g)') => wallets' = wallets
         /\ (Suspended(g) /\ ~Suspended(g)')
              => /\ Len(gloc[g].newWallets) = gloc[g].count
                 /\ wallets' = wallets \o gloc[g].newWallets]_vars

\* C40, its case: the first call has generated the first of its two batches
\* and is suspended, and a run that started meanwhile goes over the wallet
\* set of before the call
C40_Witness ==
  /\ Suspended("g1")
  /\ Len(gloc["g1"].newWallets) = batchSize
  /\ gloc["g1"].count = batchSize + 1
  /\ gloc["g1"].before # <<>>
  /\ \E p \in OneExec :
       Active(p) /\ ehist[p].nw = Len(gloc["g1"].before) /\ ehist[p].units # {}

====
